---------------------------- MODULE Spec2Model ----------------------------
(***************************************************************************)
(* List stores of the web-admin frontend: the stocks list store, which     *)
(* keeps a request controller and per-key debounce timers, and the         *)
(* ingestion-runs list store of listStore.js, which keeps neither.         *)
(*                                                                         *)
(* JavaScript runs handlers to completion on one event loop.  An async     *)
(* load runs synchronously up to its await of the API client and resumes   *)
(* in one piece when that promise settles, so a load is two atomic steps:  *)
(* the issue (inside the calling handler) and the settlement.  Pending     *)
(* fetches settle in any order.                                            *)
(*                                                                         *)
(* Strings the code trims or matches are tuples of one-character strings;  *)
(* opaque strings (cursors, messages) are TLA+ strings.                    *)
(***************************************************************************)
EXTENDS Integers, Sequences, FiniteSets, TLC

\* ------------------------------------------------------------------------
\* Bounds of the model

\* number of fetches a store issues in one behaviour
MaxLoads == 2

\* number of debounce timers installed in one behaviour
MaxTimers == 2

\* number of fetches issued in one behaviour of a page that is only reloaded
MaxReloads == 3

\* ------------------------------------------------------------------------
\* JavaScript values

\* null
NULL == "<null>"

\* String.prototype.trim: strip leading and trailing white space
IsSpace(c) == c \in {" ", "\t"}

RECURSIVE TrimStart(_)
TrimStart(s) ==
    IF s = <<>> THEN <<>>
    ELSE IF IsSpace(Head(s)) THEN TrimStart(Tail(s)) ELSE s

RECURSIVE TrimEnd(_)
TrimEnd(s) ==
    IF s = <<>> THEN <<>>
    ELSE IF IsSpace(s[Len(s)]) THEN TrimEnd(SubSeq(s, 1, Len(s) - 1)) ELSE s

Trim(s) == TrimEnd(TrimStart(s))

\* the native booleans a filter field can hold; every other value of a field
\* is a string, the tuple of its characters
JSTrue == <<"true:boolean">>
JSFalse == <<"false:boolean">>

\* typeof value === 'string'
IsStringValue(v) == v \notin {JSTrue, JSFalse}

Digits == <<"0", "1", "2", "3", "4", "5", "6", "7", "8", "9">>

IsDigit(c) == \E n \in 1..10 : Digits[n] = c

DigitValue(c) == (CHOOSE n \in 1..10 : Digits[n] = c) - 1

Pad2(n) == <<Digits[(n \div 10) + 1], Digits[(n % 10) + 1]>>

Pad4(n) == Pad2(n \div 100) \o Pad2(n % 100)

\* String(n) of a non-negative integer
RECURSIVE NumberToString(_)
NumberToString(n) ==
    IF n < 10 THEN <<Digits[n + 1]>>
    ELSE NumberToString(n \div 10) \o <<Digits[(n % 10) + 1]>>

\* /^\d{4}-\d{2}-\d{2}$/.test(str)
MatchesDatePattern(str) ==
    /\ Len(str) = 10
    /\ \A i \in {1, 2, 3, 4, 6, 7, 9, 10} : IsDigit(str[i])
    /\ str[5] = "-"
    /\ str[8] = "-"

\* the calendar fields of a string that matches the date pattern
DateFields(str) ==
    [year |-> 1000 * DigitValue(str[1]) + 100 * DigitValue(str[2])
                + 10 * DigitValue(str[3]) + DigitValue(str[4]),
     month |-> 10 * DigitValue(str[6]) + DigitValue(str[7]),
     day |-> 10 * DigitValue(str[9]) + DigitValue(str[10])]

IsLeapYear(y) == (y % 4 = 0 /\ y % 100 # 0) \/ y % 400 = 0

DaysInMonth(y, m) ==
    IF m = 2 THEN (IF IsLeapYear(y) THEN 29 ELSE 28)
    ELSE IF m \in {4, 6, 9, 11} THEN 30 ELSE 31

\* a calendar day that exists (new Date of anything else is not modelled)
IsCalendarDay(f) ==
    /\ f.month \in 1..12
    /\ f.day \in 1..DaysInMonth(f.year, f.month)

PreviousDay(f) ==
    IF f.day > 1 THEN [f EXCEPT !.day = f.day - 1]
    ELSE IF f.month > 1
         THEN [f EXCEPT !.month = f.month - 1, !.day = DaysInMonth(f.year, f.month - 1)]
    ELSE [year |-> f.year - 1, month |-> 12, day |-> 31]

\* parseDate(dateString) in a browser whose local time is UTC + offset
\* hours: the instant of local midnight of the day, as UTC calendar fields
\* and hour; <<>> is null
parseDate(dateString, offset) ==
    IF ~MatchesDatePattern(dateString) THEN <<>>
    ELSE IF ~IsCalendarDay(DateFields(dateString)) THEN <<>>
    ELSE IF offset <= 0
         THEN << [date |-> DateFields(dateString), hour |-> 0 - offset] >>
    ELSE << [date |-> PreviousDay(DateFields(dateString)), hour |-> 24 - offset] >>

\* Date.prototype.toISOString of an instant on the hour
toISOString(t) ==
    Pad4(t.date.year) \o <<"-">> \o Pad2(t.date.month) \o <<"-">> \o Pad2(t.date.day)
        \o <<"T">> \o Pad2(t.hour)
        \o <<":", "0", "0", ":", "0", "0", ".", "0", "0", "0", "Z">>

\* dateUtils.dateToUTCISO(dateValue): local midnight of the day as a UTC
\* timestamp string, or null (<<>>) for a value that is not a date
dateToUTCISO(dateValue, offset) ==
    IF parseDate(dateValue, offset) = <<>> THEN <<>>
    ELSE toISOString(parseDate(dateValue, offset)[1])

\* the offsets of the browsers the pages run in
TimezoneOffsets == {0 - 5, 0, 9}

\* ------------------------------------------------------------------------
\* Pagination references.  A reference is a tokenised URL; <<>> is the
\* absent reference (null).  new URL(url) throws unless the text starts
\* with a scheme; searchParams.get(name) is the value of the first
\* name=value pair after the "?", or null.

IsScheme(tok) == tok \in {"https:", "http:"}

URLParses(url) == Len(url) >= 2 /\ IsScheme(url[1])

RECURSIVE QueryOf(_)
QueryOf(url) ==
    IF url = <<>> THEN <<>>
    ELSE IF Head(url) = "?" THEN Tail(url) ELSE QueryOf(Tail(url))

RECURSIVE SearchParamsGet(_, _)
SearchParamsGet(q, name) ==
    IF Len(q) < 3 THEN NULL
    ELSE IF q[1] = name /\ q[2] = "=" THEN q[3]
    ELSE IF Len(q) >= 4 /\ q[4] = "&" THEN SearchParamsGet(SubSeq(q, 5, Len(q)), name)
    ELSE NULL

\* extractCursor reading the query without new URL's validation
extractCursor_unvalidated(url) ==
    SearchParamsGet(QueryOf(url), "cursor")

extractCursor(url) ==
    IF URLParses(url) THEN SearchParamsGet(QueryOf(url), "cursor") ELSE NULL

\* a cursor is truthy unless it is null or the empty string
Truthy(c) == c # NULL /\ c # ""

\* ------------------------------------------------------------------------
\* What the data source can answer

\* results is <<>> when the body has no results member, else <<array>>
Responses ==
    { [results |-> << <<"x", "y">> >>, next |-> <<"https:", "//h/api/list", "?", "cursor", "=", "n2">>, previous |-> <<>>],
      [results |-> << <<"z">> >>, next |-> <<>>,
         previous |-> <<"https:", "//h/api/list", "?", "page_size", "=", "50", "&", "cursor", "=", "p1">>],
      [results |-> <<>>, next |-> <<"/api/list", "?", "cursor", "=", "n3">>, previous |-> <<>>],
      [results |-> << <<"w">> >>, next |-> <<"/api/list", "?", "cursor", "=", "n4">>,
         previous |-> <<"https:", "//h/api/list", "?", "page_size", "=", "50">>] }

\* rejections of the API client's promise
Errors ==
    { [name |-> "Error", message |-> "Request failed with status 500"],
      [name |-> "TypeError", message |-> ""],
      [name |-> "AbortError", message |-> "The operation was aborted."] }

NoResponse == [results |-> <<>>, next |-> <<>>, previous |-> <<>>]
NoError == [name |-> "", message |-> ""]

\* ------------------------------------------------------------------------
\* The API clients.  A URLSearchParams is the sequence of its <<name, value>>
\* pairs, each value a string.

\* String(value) of a boolean
BooleanToString(b) == IF b THEN <<"t", "r", "u", "e">> ELSE <<"f", "a", "l", "s", "e">>

\* the page_size and cursor parameters
PagingParams(pageSize, cursor) ==
    (IF pageSize # 0 THEN << <<"page_size", NumberToString(pageSize)>> >> ELSE <<>>)
        \o (IF Truthy(cursor) THEN << <<"cursor", <<cursor>> >> >> ELSE <<>>)

\* the parameters appended for the string keys, in the order of the keys
StringParams(filters, keys) ==
    LET present(key) == key \in DOMAIN filters /\ filters[key] # <<>>
        sent == SelectSeq(keys, present)
    IN  [i \in 1..Len(sent) |-> <<sent[i], filters[sent[i]]>>]

\* the boolean parameters of a client that skips every falsy value
BooleanParams_dropsFalse(filters, keys) ==
    LET present(key) == key \in DOMAIN filters /\ filters[key]
        sent == SelectSeq(keys, present)
    IN  [i \in 1..Len(sent) |-> <<sent[i], BooleanToString(filters[sent[i]])>>]

\* the parameters appended for the boolean keys, in the order of the keys
BooleanParams(filters, keys) ==
    LET present(key) == key \in DOMAIN filters
        sent == SelectSeq(keys, present)
    IN  [i \in 1..Len(sent) |-> <<sent[i], BooleanToString(filters[sent[i]])>>]

\* runsAPI._buildQueryParams
runsAPI_buildQueryParams(pageSize, cursor, filters, stringFilterKeys, booleanFilterKeys) ==
    PagingParams(pageSize, cursor)
        \o StringParams(filters, stringFilterKeys)
        \o BooleanParams(filters, booleanFilterKeys)

\* the query of runsAPI.listRuns
runsAPI_listRuns(pageSize, cursor, filters) ==
    runsAPI_buildQueryParams(pageSize, cursor, filters,
        <<"ticker", "ticker__icontains", "state", "requested_by", "requested_by__icontains",
          "created_after", "created_before", "run_id", "bulk_queue_run">>,
        <<"is_terminal", "is_in_progress">>)

\* the query of runsAPI.listBulkQueueRuns
runsAPI_listBulkQueueRuns(pageSize, cursor, filters) ==
    runsAPI_buildQueryParams(pageSize, cursor, filters,
        <<"requested_by", "requested_by__icontains", "created_after", "created_before",
          "started_at_after", "started_at_before", "completed_at_after",
          "completed_at_before">>,
        <<"is_completed", "has_errors">>)

\* the query of stocksAPI.listTickers
stocksAPI_listTickers(pageSize, cursor, filters) ==
    PagingParams(pageSize, cursor)
        \o StringParams(filters,
              <<"ticker", "ticker__icontains", "sector", "sector__icontains",
                "exchange__name", "country">>)

\* ------------------------------------------------------------------------
\* State

VARIABLES
    page,           \* the page the browser shows: "stocks" or "runs"
    stocksList,     \* Alpine.store('stocksList')
    timers,         \* the browser's table of pending setTimeout timers
    timerSeq,       \* number of timers installed so far
    fetches,        \* every call of the page's list API, in issue order
    cursorsFrom,    \* index in fetches of the response the store's cursors came from (0: none)
    runsList,       \* Alpine.store('runsList') of listStore.js
    budget,         \* the number of requests this behaviour may issue
    exchangeFetches,    \* every call of metadataAPI.listExchanges, in issue order
    bulkQueueRunsList,  \* Alpine.store('bulkQueueRunsList') of listStore.js
    timezoneOffset,     \* the browser's local time is UTC + timezoneOffset hours
    stockDetailsModal,          \* Alpine.store('stockDetailsModal')
    bulkQueueRunDetailsModal,   \* Alpine.store('bulkQueueRunDetailsModal') of listStore.js
    detailFetches,      \* every call of getTickerStatus / getBulkQueueRunStats, in issue order
    runDetailsModal,    \* Alpine.store('runDetailsModal') of listStore.js
    queueFetches,       \* every call of stockDetailsModal.queueStock that reached the API
    shellStores,        \* Alpine.store('base'), Alpine.store('themeToggle'), Alpine.store('authAPI')
    effects             \* how often each side effect of initialisation has run

vars == <<page, stocksList, timers, timerSeq, fetches, cursorsFrom, runsList, budget,
          exchangeFetches, bulkQueueRunsList, timezoneOffset,
          stockDetailsModal, bulkQueueRunDetailsModal, detailFetches,
          runDetailsModal, queueFetches, shellStores, effects>>

\* the state of the details modal stores.  An object that can be null is
\* <<>> (null) or <<object>>
stockDetailsModal_state ==
    [_initialized |-> FALSE,
     isOpen |-> FALSE,
     stockData |-> <<>>,
     runStatus |-> <<>>,
     loadingStatus |-> FALSE,
     loadingQueue |-> FALSE,
     error |-> NULL]

bulkQueueRunDetailsModal_state ==
    [_initialized |-> FALSE,
     isOpen |-> FALSE,
     bulkQueueRunData |-> <<>>,
     statsData |-> <<>>,
     loadingStats |-> FALSE,
     error |-> NULL]

runDetailsModal_state ==
    [_initialized |-> FALSE,
     isOpen |-> FALSE,
     runData |-> <<>>]

\* the stores every page shares: base, themeToggle and authAPI
shellStores_state ==
    [base |-> [_initialized |-> FALSE, _loadingHidden |-> FALSE],
     themeToggle |-> [_initialized |-> FALSE, currentTheme |-> "light"],
     authAPI |-> [_initialized |-> FALSE, loading |-> FALSE, error |-> NULL]]

\* nothing has been applied to the document yet
NoEffects == [applyTheme |-> 0, fadeOverlay |-> 0, hideOverlay |-> 0]

\* no details modal has been opened
ModalsClosed ==
    /\ stockDetailsModal = stockDetailsModal_state
    /\ bulkQueueRunDetailsModal = bulkQueueRunDetailsModal_state
    /\ detailFetches = <<>>
    /\ runDetailsModal = runDetailsModal_state
    /\ queueFetches = <<>>
    /\ shellStores = shellStores_state
    /\ effects = NoEffects

\* a call of the list API: its arguments, the query parameters the API
\* client built from them (query), the AbortController made for it
\* (aborted) and how it settled.  The other fields are history: the store's
\* cursors at the moment of the call (cursorsAtCall), the committed response
\* its cursor came from (source, 0 for a first-page call), and where it
\* stood when it settled (timing): "latest" if it was the most recently
\* issued call, "superseded" if a newer call was pending, "late" if the
\* newest call had already settled
Fetch(pageSize, cursor, filters, cursorsAtCall, source, query) ==
    [pageSize |-> pageSize, cursor |-> cursor, filters |-> filters, query |-> query,
     aborted |-> FALSE, state |-> "pending",
     response |-> NoResponse, error |-> NoError,
     cursorsAtCall |-> cursorsAtCall, source |-> source,
     timing |-> ""]

Pending(fs) == { i \in 1..Len(fs) : fs[i].state = "pending" }

Timing(fs, i) ==
    IF i = Len(fs) THEN "latest"
    ELSE IF fs[Len(fs)].state = "pending" THEN "superseded" ELSE "late"

\* the log after call i resolved with response
Resolved(fs, i, response) ==
    [fs EXCEPT ![i].state = "ok", ![i].response = response, ![i].timing = Timing(fs, i)]

\* the log after call i rejected with error
Rejected(fs, i, error) ==
    [fs EXCEPT ![i].state = "failed", ![i].error = error, ![i].timing = Timing(fs, i)]

\* ------------------------------------------------------------------------
\* stocksList

StocksFilterKeys ==
    {"ticker__icontains", "sector__name__icontains", "exchange__name", "country"}

StocksDebounceKeys == {"ticker__icontains", "sector__name__icontains"}

\* values typed into each debounced input
FilterInputs ==
    [k \in StocksDebounceKeys |->
        IF k = "ticker__icontains"
        THEN { <<>>, <<" ">>, <<"a">>, <<"b", " ">> }
        ELSE { <<>>, <<"a">> }]

stocksList_state ==
    [_initialized |-> FALSE,
     stocks |-> <<>>,
     loading |-> FALSE,
     error |-> NULL,
     nextCursor |-> NULL,
     previousCursor |-> NULL,
     pageSize |-> 50,
     _debounceTimers |-> [k \in StocksDebounceKeys |-> 0],
     debounceDelay |-> 400,
     _currentRequestController |-> 0,
     filters |-> [k \in StocksFilterKeys |-> <<>>],
     exchanges |-> <<>>,
     exchangesLoaded |-> FALSE,
     exchangesLoading |-> FALSE]

\* activeFilters of loadStocks: the non-blank filters, trimmed
stocksList_activeFilters(filters) ==
    [k \in { key \in DOMAIN filters : filters[key] # <<>> /\ Trim(filters[key]) # <<>> }
        |-> Trim(filters[k])]

\* loadStocks leaving error as it was when it issues its request
stocksList_loadStocks_keepsError(s, fs, cursor, source) ==
    LET ctrl == s._currentRequestController
        fs1 == IF ctrl # 0 THEN [fs EXCEPT ![ctrl].aborted = TRUE] ELSE fs
        s1 == [s EXCEPT !._currentRequestController = Len(fs) + 1,
                        !.loading = TRUE]
    IN  [store |-> s1,
         fetches |-> Append(fs1, Fetch(s1.pageSize, cursor,
                                       stocksList_activeFilters(s1.filters),
                                       <<s1.nextCursor, s1.previousCursor>>, source,
                                       stocksAPI_listTickers(s1.pageSize, cursor,
                                           stocksList_activeFilters(s1.filters))))]

\* loadStocks up to its await: abort the tracked controller, track a new
\* one, raise loading, reset error, call listTickers
stocksList_loadStocks(s, fs, cursor, source) ==
    LET ctrl == s._currentRequestController
        fs1 == IF ctrl # 0 THEN [fs EXCEPT ![ctrl].aborted = TRUE] ELSE fs
        s1 == [s EXCEPT !._currentRequestController = Len(fs) + 1,
                        !.loading = TRUE,
                        !.error = NULL]
    IN  [store |-> s1,
         fetches |-> Append(fs1, Fetch(s1.pageSize, cursor,
                                       stocksList_activeFilters(s1.filters),
                                       <<s1.nextCursor, s1.previousCursor>>, source,
                                       stocksAPI_listTickers(s1.pageSize, cursor,
                                           stocksList_activeFilters(s1.filters))))]

\* loadStocks without its finally block
stocksList_loadStocks_finally_missing(s, fs) == s

\* the finally block of loadStocks
stocksList_loadStocks_finally(s, fs) ==
    IF s._currentRequestController # 0 /\ ~fs[s._currentRequestController].aborted
    THEN [s EXCEPT !.loading = FALSE]
    ELSE s

\* loadStocks resuming without looking at its signal: every response commits
stocksList_loadStocks_resolved_unchecked(s, fs, i, response) ==
    stocksList_loadStocks_finally(
        [s EXCEPT !.stocks = IF response.results = <<>> THEN <<>> ELSE response.results[1],
                  !.nextCursor = IF response.next # <<>> THEN extractCursor(response.next) ELSE NULL,
                  !.previousCursor = IF response.previous # <<>> THEN extractCursor(response.previous) ELSE NULL],
        fs)

\* loadStocks after listTickers resolved with response, for the call i
stocksList_loadStocks_resolved(s, fs, i, response) ==
    IF fs[i].aborted
    THEN stocksList_loadStocks_finally([s EXCEPT !.loading = FALSE], fs)
    ELSE stocksList_loadStocks_finally(
            [s EXCEPT !.stocks = IF response.results = <<>> THEN <<>> ELSE response.results[1],
                      !.nextCursor = IF response.next # <<>> THEN extractCursor(response.next) ELSE NULL,
                      !.previousCursor = IF response.previous # <<>> THEN extractCursor(response.previous) ELSE NULL],
            fs)

\* loadStocks whose catch has no branch for abort errors
stocksList_loadStocks_rejected_noAbortBranch(s, fs, i, error) ==
    stocksList_loadStocks_finally(
        [s EXCEPT !.error = IF error.message # "" THEN error.message ELSE "Failed to load stocks",
                  !.stocks = <<>>,
                  !.nextCursor = NULL,
                  !.previousCursor = NULL],
        fs)

\* loadStocks after listTickers rejected with error, for the call i
stocksList_loadStocks_rejected(s, fs, i, error) ==
    IF error.name = "AbortError"
       \/ (s._currentRequestController # 0 /\ fs[s._currentRequestController].aborted)
    THEN stocksList_loadStocks_finally([s EXCEPT !.loading = FALSE], fs)
    ELSE stocksList_loadStocks_finally(
            [s EXCEPT !.error = IF error.message # "" THEN error.message ELSE "Failed to load stocks",
                      !.stocks = <<>>,
                      !.nextCursor = NULL,
                      !.previousCursor = NULL],
            fs)

\* applyFilters loading the first page without resetting the cursors
stocksList_applyFilters_keepsCursors(s, fs) ==
    stocksList_loadStocks(s, fs, NULL, 0)

\* applyFilters: reset both cursors, then load the first page
stocksList_applyFilters(s, fs) ==
    stocksList_loadStocks([s EXCEPT !.nextCursor = NULL, !.previousCursor = NULL],
                          fs, NULL, 0)

\* clearTimeout
clearTimeout(tm, id) == { t \in tm : t.id # id }

\* clearFilters resetting its handles without a clearTimeout
stocksList_clearedTimers_none(s, tm) == tm

\* the timers left after clearFilters cleared every tracked handle
stocksList_clearedTimers(s, tm) ==
    { t \in tm : \A k \in DOMAIN s._debounceTimers : s._debounceTimers[k] # t.id }

\* clearFilters leaving the filter values in place
stocksList_clearFilters_keepsFilters(s, fs) ==
    stocksList_applyFilters(
        [s EXCEPT !._debounceTimers = [k \in DOMAIN s._debounceTimers |-> 0]],
        fs)

\* clearFilters: clear the debounce timers, empty the filters, applyFilters
stocksList_clearFilters(s, fs) ==
    stocksList_applyFilters(
        [s EXCEPT !._debounceTimers = [k \in DOMAIN s._debounceTimers |-> 0],
                  !.filters = [k \in StocksFilterKeys |-> <<>>]],
        fs)

\* a timer callback that loads and leaves its handle in place
stocksList_debounceCallback_keepsHandle(s, fs, filterKey) ==
    stocksList_loadStocks([s EXCEPT !.nextCursor = NULL, !.previousCursor = NULL],
                          fs, NULL, 0)

\* the callback handleDebouncedFilter hands to setTimeout for filterKey
stocksList_debounceCallback(s, fs, filterKey) ==
    LET r == stocksList_loadStocks([s EXCEPT !.nextCursor = NULL, !.previousCursor = NULL],
                                   fs, NULL, 0)
    IN  [store |-> [r.store EXCEPT !._debounceTimers[filterKey] = 0],
         fetches |-> r.fetches]

\* what metadataAPI.listExchanges can answer
ExchangeResponses ==
    { [results |-> << <<"NYSE", "NASDAQ">> >>], [results |-> <<>>] }

\* loadExchanges up to its await
stocksList_loadExchanges(s) ==
    [s EXCEPT !.exchangesLoading = TRUE, !.error = NULL]

\* loadExchanges after listExchanges resolved with response
stocksList_loadExchanges_resolved(s, response) ==
    [s EXCEPT !.exchanges = IF response.results = <<>> THEN <<>> ELSE response.results[1],
              !.exchangesLoaded = TRUE,
              !.exchangesLoading = FALSE]

\* loadExchanges after listExchanges rejected with error
stocksList_loadExchanges_rejected(s, error) ==
    [s EXCEPT !.error = IF error.message # "" THEN error.message ELSE "Failed to load exchanges",
              !.exchanges = <<>>,
              !.exchangesLoading = FALSE]

\* ------------------------------------------------------------------------
\* Operations of the stocks page

CanIssue == Len(fetches) + Len(exchangeFetches) < budget

\* the page (or a retry button) calls loadStocks()
Stocks_loadStocks ==
    /\ page = "stocks"
    /\ CanIssue
    /\ LET r == stocksList_loadStocks(stocksList, fetches, NULL, 0)
       IN  stocksList' = r.store /\ fetches' = r.fetches
    /\ UNCHANGED <<page, budget, runDetailsModal, queueFetches, shellStores, effects, stockDetailsModal, bulkQueueRunDetailsModal, detailFetches, exchangeFetches, bulkQueueRunsList, timezoneOffset, timers, timerSeq, cursorsFrom, runsList>>

\* applyFilters clearing the pending debounce timers before it loads
Stocks_applyFilters_clearsTimers ==
    /\ page = "stocks"
    /\ CanIssue
    /\ timers' = stocksList_clearedTimers(stocksList, timers)
    /\ LET r == stocksList_applyFilters(
                    [stocksList EXCEPT !._debounceTimers = [k \in StocksDebounceKeys |-> 0]],
                    fetches)
       IN  stocksList' = r.store /\ fetches' = r.fetches
    /\ cursorsFrom' = 0
    /\ UNCHANGED <<page, budget, runDetailsModal, queueFetches, shellStores, effects, stockDetailsModal, bulkQueueRunDetailsModal, detailFetches, exchangeFetches, bulkQueueRunsList, timezoneOffset, timerSeq, runsList>>

Stocks_applyFilters ==
    /\ page = "stocks"
    /\ CanIssue
    /\ LET r == stocksList_applyFilters(stocksList, fetches)
       IN  stocksList' = r.store /\ fetches' = r.fetches
    /\ cursorsFrom' = 0
    /\ UNCHANGED <<page, budget, runDetailsModal, queueFetches, shellStores, effects, stockDetailsModal, bulkQueueRunDetailsModal, detailFetches, exchangeFetches, bulkQueueRunsList, timezoneOffset, timers, timerSeq, runsList>>

Stocks_clearFilters ==
    /\ page = "stocks"
    /\ CanIssue
    /\ timers' = stocksList_clearedTimers(stocksList, timers)
    /\ LET r == stocksList_clearFilters(stocksList, fetches)
       IN  stocksList' = r.store /\ fetches' = r.fetches
    /\ cursorsFrom' = 0
    /\ UNCHANGED <<page, budget, runDetailsModal, queueFetches, shellStores, effects, stockDetailsModal, bulkQueueRunDetailsModal, detailFetches, exchangeFetches, bulkQueueRunsList, timezoneOffset, timerSeq, runsList>>

\* nextPage loading without looking at nextCursor
Stocks_nextPage_unguarded ==
    /\ page = "stocks"
    /\ CanIssue
    /\ LET r == stocksList_loadStocks(stocksList, fetches,
                                      stocksList.nextCursor, cursorsFrom)
       IN  stocksList' = r.store /\ fetches' = r.fetches
    /\ UNCHANGED <<page, budget, runDetailsModal, queueFetches, shellStores, effects, stockDetailsModal, bulkQueueRunDetailsModal, detailFetches, exchangeFetches, bulkQueueRunsList, timezoneOffset, timers, timerSeq, cursorsFrom, runsList>>

Stocks_nextPage ==
    /\ page = "stocks"
    /\ IF Truthy(stocksList.nextCursor)
       THEN /\ CanIssue
            /\ LET r == stocksList_loadStocks(stocksList, fetches,
                                              stocksList.nextCursor, cursorsFrom)
               IN  stocksList' = r.store /\ fetches' = r.fetches
       ELSE UNCHANGED <<stocksList, fetches>>
    /\ UNCHANGED <<page, budget, runDetailsModal, queueFetches, shellStores, effects, stockDetailsModal, bulkQueueRunDetailsModal, detailFetches, exchangeFetches, bulkQueueRunsList, timezoneOffset, timers, timerSeq, cursorsFrom, runsList>>

Stocks_previousPage ==
    /\ page = "stocks"
    /\ IF Truthy(stocksList.previousCursor)
       THEN /\ CanIssue
            /\ LET r == stocksList_loadStocks(stocksList, fetches,
                                              stocksList.previousCursor, cursorsFrom)
               IN  stocksList' = r.store /\ fetches' = r.fetches
       ELSE UNCHANGED <<stocksList, fetches>>
    /\ UNCHANGED <<page, budget, runDetailsModal, queueFetches, shellStores, effects, stockDetailsModal, bulkQueueRunDetailsModal, detailFetches, exchangeFetches, bulkQueueRunsList, timezoneOffset, timers, timerSeq, cursorsFrom, runsList>>

\* handleDebouncedFilter installing its timer without clearing the pending one
Stocks_handleDebouncedFilter_keepsTimer(filterKey, value) ==
    /\ page = "stocks"
    /\ LET s1 == [stocksList EXCEPT !._debounceTimers[filterKey] = 0,
                                    !.filters[filterKey] = value]
       IN  IF Trim(value) = <<>>
           THEN /\ CanIssue
                /\ LET r == stocksList_loadStocks(
                                [s1 EXCEPT !.nextCursor = NULL, !.previousCursor = NULL],
                                fetches, NULL, 0)
                   IN  stocksList' = r.store /\ fetches' = r.fetches
                /\ cursorsFrom' = 0
                /\ UNCHANGED <<timers, timerSeq>>
           ELSE /\ timerSeq < MaxTimers
                /\ timerSeq' = timerSeq + 1
                /\ timers' = timers \cup {[id |-> timerSeq + 1, key |-> filterKey, value |-> value]}
                /\ stocksList' = [s1 EXCEPT !._debounceTimers[filterKey] = timerSeq + 1]
                /\ UNCHANGED <<fetches, cursorsFrom>>
    /\ UNCHANGED <<page, budget, runDetailsModal, queueFetches, shellStores, effects, stockDetailsModal, bulkQueueRunDetailsModal, detailFetches, exchangeFetches, bulkQueueRunsList, timezoneOffset, runsList>>

\* handleDebouncedFilter debouncing an empty value like any other
Stocks_handleDebouncedFilter_alwaysDebounced(filterKey, value) ==
    /\ page = "stocks"
    /\ LET handle == stocksList._debounceTimers[filterKey]
           tm1 == IF handle # 0 THEN clearTimeout(timers, handle) ELSE timers
           s1 == [stocksList EXCEPT !._debounceTimers[filterKey] = 0,
                                    !.filters[filterKey] = value]
       IN  /\ timerSeq < MaxTimers
           /\ timerSeq' = timerSeq + 1
           /\ timers' = tm1 \cup {[id |-> timerSeq + 1, key |-> filterKey, value |-> value]}
           /\ stocksList' = [s1 EXCEPT !._debounceTimers[filterKey] = timerSeq + 1]
           /\ UNCHANGED <<fetches, cursorsFrom>>
    /\ UNCHANGED <<page, budget, runDetailsModal, queueFetches, shellStores, effects, stockDetailsModal, bulkQueueRunDetailsModal, detailFetches, exchangeFetches, bulkQueueRunsList, timezoneOffset, runsList>>

\* handleDebouncedFilter keeping one timer for all keys: it clears every
\* pending timer before it installs the new one
Stocks_handleDebouncedFilter_oneTimer(filterKey, value) ==
    /\ page = "stocks"
    /\ LET s1 == [stocksList EXCEPT !._debounceTimers = [k \in StocksDebounceKeys |-> 0],
                                    !.filters[filterKey] = value]
       IN  IF Trim(value) = <<>>
           THEN /\ CanIssue
                /\ LET r == stocksList_loadStocks(
                                [s1 EXCEPT !.nextCursor = NULL, !.previousCursor = NULL],
                                fetches, NULL, 0)
                   IN  stocksList' = r.store /\ fetches' = r.fetches
                /\ timers' = {}
                /\ cursorsFrom' = 0
                /\ UNCHANGED timerSeq
           ELSE /\ timerSeq < MaxTimers
                /\ timerSeq' = timerSeq + 1
                /\ timers' = {[id |-> timerSeq + 1, key |-> filterKey, value |-> value]}
                /\ stocksList' = [s1 EXCEPT !._debounceTimers[filterKey] = timerSeq + 1]
                /\ UNCHANGED <<fetches, cursorsFrom>>
    /\ UNCHANGED <<page, budget, runDetailsModal, queueFetches, shellStores, effects, stockDetailsModal, bulkQueueRunDetailsModal, detailFetches, exchangeFetches, bulkQueueRunsList, timezoneOffset, runsList>>

\* handleDebouncedFilter(filterKey, value)
Stocks_handleDebouncedFilter(filterKey, value) ==
    /\ page = "stocks"
    /\ LET handle == stocksList._debounceTimers[filterKey]
           tm1 == IF handle # 0 THEN clearTimeout(timers, handle) ELSE timers
           s1 == [stocksList EXCEPT !._debounceTimers[filterKey] = 0,
                                    !.filters[filterKey] = value]
       IN  IF Trim(value) = <<>>
           THEN /\ CanIssue
                /\ LET r == stocksList_loadStocks(
                                [s1 EXCEPT !.nextCursor = NULL, !.previousCursor = NULL],
                                fetches, NULL, 0)
                   IN  stocksList' = r.store /\ fetches' = r.fetches
                /\ timers' = tm1
                /\ cursorsFrom' = 0
                /\ UNCHANGED timerSeq
           ELSE /\ timerSeq < MaxTimers
                /\ timerSeq' = timerSeq + 1
                /\ timers' = tm1 \cup {[id |-> timerSeq + 1, key |-> filterKey, value |-> value]}
                /\ stocksList' = [s1 EXCEPT !._debounceTimers[filterKey] = timerSeq + 1]
                /\ UNCHANGED <<fetches, cursorsFrom>>
    /\ UNCHANGED <<page, budget, runDetailsModal, queueFetches, shellStores, effects, stockDetailsModal, bulkQueueRunDetailsModal, detailFetches, exchangeFetches, bulkQueueRunsList, timezoneOffset, runsList>>

\* debounceDelay has passed for the pending timer t: the browser runs its callback
Stocks_debounceTimerFires(t) ==
    /\ page = "stocks"
    /\ t \in timers
    /\ CanIssue
    /\ timers' = timers \ {t}
    /\ LET r == stocksList_debounceCallback(stocksList, fetches, t.key)
       IN  stocksList' = r.store /\ fetches' = r.fetches
    /\ cursorsFrom' = 0
    /\ UNCHANGED <<page, budget, runDetailsModal, queueFetches, shellStores, effects, stockDetailsModal, bulkQueueRunDetailsModal, detailFetches, exchangeFetches, bulkQueueRunsList, timezoneOffset, timerSeq, runsList>>

\* the listTickers promise of call i resolves with response
Stocks_listTickersResolves(i, response) ==
    /\ page = "stocks"
    /\ i \in Pending(fetches)
    /\ fetches' = Resolved(fetches, i, response)
    /\ stocksList' = stocksList_loadStocks_resolved(stocksList, fetches, i, response)
    /\ cursorsFrom' = IF fetches[i].aborted THEN cursorsFrom ELSE i
    /\ UNCHANGED <<page, budget, runDetailsModal, queueFetches, shellStores, effects, stockDetailsModal, bulkQueueRunDetailsModal, detailFetches, exchangeFetches, bulkQueueRunsList, timezoneOffset, timers, timerSeq, runsList>>

\* a rejection handler that calls loadStocks() again after a failure
Stocks_listTickersRejects_retries(i, error) ==
    /\ page = "stocks"
    /\ i \in Pending(fetches)
    /\ LET s1 == stocksList_loadStocks_rejected(stocksList, fetches, i, error)
           fs1 == Rejected(fetches, i, error)
           r == stocksList_loadStocks(s1, fs1, NULL, 0)
       IN  IF CanIssue /\ s1.error # NULL
           THEN stocksList' = r.store /\ fetches' = r.fetches
           ELSE stocksList' = s1 /\ fetches' = fs1
    /\ cursorsFrom' = IF stocksList'.nextCursor = stocksList.nextCursor
                         /\ stocksList'.previousCursor = stocksList.previousCursor
                      THEN cursorsFrom ELSE 0
    /\ UNCHANGED <<page, budget, runDetailsModal, queueFetches, shellStores, effects, stockDetailsModal, bulkQueueRunDetailsModal, detailFetches, exchangeFetches, bulkQueueRunsList, timezoneOffset, timers, timerSeq, runsList>>

\* the listTickers promise of call i rejects with error
Stocks_listTickersRejects(i, error) ==
    /\ page = "stocks"
    /\ i \in Pending(fetches)
    /\ fetches' = Rejected(fetches, i, error)
    /\ stocksList' = stocksList_loadStocks_rejected(stocksList, fetches, i, error)
    /\ cursorsFrom' = IF stocksList'.nextCursor = stocksList.nextCursor
                         /\ stocksList'.previousCursor = stocksList.previousCursor
                      THEN cursorsFrom ELSE 0
    /\ UNCHANGED <<page, budget, runDetailsModal, queueFetches, shellStores, effects, stockDetailsModal, bulkQueueRunDetailsModal, detailFetches, exchangeFetches, bulkQueueRunsList, timezoneOffset, timers, timerSeq, runsList>>

\* the page opens its exchange filter: loadExchanges()
Stocks_loadExchanges ==
    /\ page = "stocks"
    /\ IF stocksList.exchangesLoaded
       THEN UNCHANGED <<stocksList, exchangeFetches>>
       ELSE /\ CanIssue
            /\ stocksList' = stocksList_loadExchanges(stocksList)
            /\ exchangeFetches' = Append(exchangeFetches, "pending")
    /\ UNCHANGED <<page, budget, runDetailsModal, queueFetches, shellStores, effects, stockDetailsModal, bulkQueueRunDetailsModal, detailFetches, bulkQueueRunsList, timezoneOffset, timers, timerSeq, fetches,
                 cursorsFrom, runsList>>

\* the listExchanges promise of call i resolves with response
Stocks_listExchangesResolves(i, response) ==
    /\ page = "stocks"
    /\ i \in 1..Len(exchangeFetches)
    /\ exchangeFetches[i] = "pending"
    /\ exchangeFetches' = [exchangeFetches EXCEPT ![i] = "ok"]
    /\ stocksList' = stocksList_loadExchanges_resolved(stocksList, response)
    /\ UNCHANGED <<page, budget, runDetailsModal, queueFetches, shellStores, effects, stockDetailsModal, bulkQueueRunDetailsModal, detailFetches, bulkQueueRunsList, timezoneOffset, timers, timerSeq, fetches,
                 cursorsFrom, runsList>>

\* the listExchanges promise of call i rejects with error
Stocks_listExchangesRejects(i, error) ==
    /\ page = "stocks"
    /\ i \in 1..Len(exchangeFetches)
    /\ exchangeFetches[i] = "pending"
    /\ exchangeFetches' = [exchangeFetches EXCEPT ![i] = "failed"]
    /\ stocksList' = stocksList_loadExchanges_rejected(stocksList, error)
    /\ UNCHANGED <<page, budget, runDetailsModal, queueFetches, shellStores, effects, stockDetailsModal, bulkQueueRunDetailsModal, detailFetches, bulkQueueRunsList, timezoneOffset, timers, timerSeq, fetches,
                 cursorsFrom, runsList>>

\* the answers drawn while the page is filtered and paged: a page with a
\* next reference, a page with a previous reference, a failure
PageResponses ==
    { r \in Responses : r.results # <<>> /\ (r.next = <<>> \/ URLParses(r.next)) }

PageErrors ==
    { e \in Errors : e.name = "Error" }

StocksNext ==
    \/ Stocks_loadStocks
    \/ Stocks_applyFilters
    \/ Stocks_clearFilters
    \/ Stocks_nextPage
    \/ Stocks_previousPage
    \/ \E k \in StocksDebounceKeys : \E v \in FilterInputs[k] : Stocks_handleDebouncedFilter(k, v)
    \/ \E t \in timers : Stocks_debounceTimerFires(t)
    \/ \E i \in 1..Len(fetches), r \in PageResponses : Stocks_listTickersResolves(i, r)
    \/ \E i \in 1..Len(fetches), e \in PageErrors : Stocks_listTickersRejects(i, e)
    \/ Stocks_loadExchanges
    \/ \E i \in 1..Len(exchangeFetches), r \in ExchangeResponses :
          Stocks_listExchangesResolves(i, r)
    \/ \E i \in 1..Len(exchangeFetches), e \in PageErrors : Stocks_listExchangesRejects(i, e)

\* ------------------------------------------------------------------------
\* runsList (listStore.js)

RunsFilterKeys ==
    {"run_id", "ticker", "ticker__icontains", "state", "requested_by",
     "requested_by__icontains", "created_after", "created_before",
     "is_terminal", "is_in_progress", "bulk_queue_run"}

RunsBooleanKeys == {"is_terminal", "is_in_progress"}

RunsDateKeys == {"created_after", "created_before"}

runsList_state ==
    [_initialized |-> FALSE,
     runs |-> <<>>,
     loading |-> FALSE,
     error |-> NULL,
     nextCursor |-> NULL,
     previousCursor |-> NULL,
     pageSize |-> 50,
     filters |-> [k \in RunsFilterKeys |-> <<>>]]

\* String.prototype.toLowerCase, on the letters the model uses
LowerOf(c) ==
    CASE c = "T" -> "t" [] c = "R" -> "r" [] c = "U" -> "u" [] c = "E" -> "e"
      [] c = "F" -> "f" [] c = "A" -> "a" [] c = "L" -> "l" [] c = "S" -> "s"
      [] OTHER -> c

toLowerCase(str) == [i \in 1..Len(str) |-> LowerOf(str[i])]

\* the keys of a loadRuns that tests every value against '' only
runsList_activeKeys_untrimmed(filters) ==
    { key \in DOMAIN filters : filters[key] # <<>> }

\* the keys of a loadRuns that does not test a date against YYYY-MM-DD
runsList_activeKeys_anyDate(filters) ==
    { key \in DOMAIN filters :
        IF key \in RunsBooleanKeys THEN filters[key] # <<>>
        ELSE filters[key] # <<>> /\ Trim(filters[key]) # <<>> }

\* the keys loadRuns puts in activeFilters
runsList_activeKeys(filters) ==
    { key \in DOMAIN filters :
        IF key \in RunsBooleanKeys THEN filters[key] # <<>>
        ELSE IF key \in RunsDateKeys
             THEN filters[key] # <<>> /\ Trim(filters[key]) # <<>>
                  /\ MatchesDatePattern(Trim(filters[key]))
        ELSE filters[key] # <<>> /\ Trim(filters[key]) # <<>> }

\* activeFilters of loadRuns
runsList_activeFilters(filters) ==
    [key \in runsList_activeKeys(filters) |->
        IF key \in RunsBooleanKeys
        THEN (IF IsStringValue(filters[key])
              THEN toLowerCase(filters[key]) = <<"t", "r", "u", "e">>
              ELSE filters[key] = JSTrue)
        ELSE IF key \in RunsDateKeys
             THEN Trim(filters[key]) \o <<"T", "0", "0", ":", "0", "0", ":", "0", "0", "Z">>
        ELSE Trim(filters[key])]

\* setInitialFilters: copy the given keys the store knows, trimmed
runsList_setInitialFilters(s, initialFilters) ==
    [s EXCEPT !.filters = [key \in DOMAIN s.filters |->
                             IF key \in DOMAIN initialFilters
                             THEN Trim(initialFilters[key])
                             ELSE s.filters[key]]]

\* init(initialFilters)
runsList_init(s, initialFilters) ==
    [runsList_setInitialFilters(s, initialFilters) EXCEPT !._initialized = TRUE]

\* loadRuns up to its await: raise loading, reset error, call listRuns
runsList_loadRuns(s, fs, cursor, source) ==
    LET s1 == [s EXCEPT !.loading = TRUE, !.error = NULL]
    IN  [store |-> s1,
         fetches |-> Append(fs, Fetch(s1.pageSize, cursor,
                                      runsList_activeFilters(s1.filters),
                                      <<s1.nextCursor, s1.previousCursor>>, source,
                                      runsAPI_listRuns(s1.pageSize, cursor,
                                          runsList_activeFilters(s1.filters))))]

\* loadRuns after listRuns resolved with response
runsList_loadRuns_resolved(s, response) ==
    [s EXCEPT !.runs = IF response.results = <<>> THEN <<>> ELSE response.results[1],
              !.nextCursor = IF response.next # <<>> THEN extractCursor(response.next) ELSE NULL,
              !.previousCursor = IF response.previous # <<>> THEN extractCursor(response.previous) ELSE NULL,
              !.loading = FALSE]

\* loadRuns after listRuns rejected with error
runsList_loadRuns_rejected(s, error) ==
    [s EXCEPT !.error = IF error.message # "" THEN error.message ELSE "Failed to load runs",
              !.runs = <<>>,
              !.nextCursor = NULL,
              !.previousCursor = NULL,
              !.loading = FALSE]

\* applyFilters: reset both cursors, then load the first page
runsList_applyFilters(s, fs) ==
    runsList_loadRuns([s EXCEPT !.nextCursor = NULL, !.previousCursor = NULL],
                      fs, NULL, 0)

\* clearFilters: empty the filters, applyFilters
runsList_clearFilters(s, fs) ==
    runsList_applyFilters([s EXCEPT !.filters = [k \in RunsFilterKeys |-> <<>>]], fs)

\* ------------------------------------------------------------------------
\* Operations of the runs page

\* the filters a page hands to init (from its URL parameters)
InitialFilterInputs ==
    { ("bulk_queue_run" :> <<"u", "1">>),
      ("state" :> <<" ", "F">>) @@ ("is_terminal" :> <<"T", "r", "u", "e">>)
         @@ ("created_after" :> <<"2", "0", "2", "5", "-", "0", "1", "-", "0", "1">>)
         @@ ("created_before" :> <<"2", "0", "2", "5", "-", "1", "-", "1">>) }

Runs_init(initialFilters) ==
    /\ page = "runs"
    /\ runsList' = runsList_init(runsList, initialFilters)
    /\ UNCHANGED <<page, budget, runDetailsModal, queueFetches, shellStores, effects, stockDetailsModal, bulkQueueRunDetailsModal, detailFetches, exchangeFetches, bulkQueueRunsList, timezoneOffset, stocksList, timers, timerSeq, fetches, cursorsFrom>>

Runs_loadRuns ==
    /\ page = "runs"
    /\ CanIssue
    /\ LET r == runsList_loadRuns(runsList, fetches, NULL, 0)
       IN  runsList' = r.store /\ fetches' = r.fetches
    /\ UNCHANGED <<page, budget, runDetailsModal, queueFetches, shellStores, effects, stockDetailsModal, bulkQueueRunDetailsModal, detailFetches, exchangeFetches, bulkQueueRunsList, timezoneOffset, stocksList, timers, timerSeq, cursorsFrom>>

Runs_applyFilters ==
    /\ page = "runs"
    /\ CanIssue
    /\ LET r == runsList_applyFilters(runsList, fetches)
       IN  runsList' = r.store /\ fetches' = r.fetches
    /\ cursorsFrom' = 0
    /\ UNCHANGED <<page, budget, runDetailsModal, queueFetches, shellStores, effects, stockDetailsModal, bulkQueueRunDetailsModal, detailFetches, exchangeFetches, bulkQueueRunsList, timezoneOffset, stocksList, timers, timerSeq>>

Runs_clearFilters ==
    /\ page = "runs"
    /\ CanIssue
    /\ LET r == runsList_clearFilters(runsList, fetches)
       IN  runsList' = r.store /\ fetches' = r.fetches
    /\ cursorsFrom' = 0
    /\ UNCHANGED <<page, budget, runDetailsModal, queueFetches, shellStores, effects, stockDetailsModal, bulkQueueRunDetailsModal, detailFetches, exchangeFetches, bulkQueueRunsList, timezoneOffset, stocksList, timers, timerSeq>>

Runs_nextPage ==
    /\ page = "runs"
    /\ IF Truthy(runsList.nextCursor)
       THEN /\ CanIssue
            /\ LET r == runsList_loadRuns(runsList, fetches, runsList.nextCursor, cursorsFrom)
               IN  runsList' = r.store /\ fetches' = r.fetches
       ELSE UNCHANGED <<runsList, fetches>>
    /\ UNCHANGED <<page, budget, runDetailsModal, queueFetches, shellStores, effects, stockDetailsModal, bulkQueueRunDetailsModal, detailFetches, exchangeFetches, bulkQueueRunsList, timezoneOffset, stocksList, timers, timerSeq, cursorsFrom>>

Runs_previousPage ==
    /\ page = "runs"
    /\ IF Truthy(runsList.previousCursor)
       THEN /\ CanIssue
            /\ LET r == runsList_loadRuns(runsList, fetches, runsList.previousCursor, cursorsFrom)
               IN  runsList' = r.store /\ fetches' = r.fetches
       ELSE UNCHANGED <<runsList, fetches>>
    /\ UNCHANGED <<page, budget, runDetailsModal, queueFetches, shellStores, effects, stockDetailsModal, bulkQueueRunDetailsModal, detailFetches, exchangeFetches, bulkQueueRunsList, timezoneOffset, stocksList, timers, timerSeq, cursorsFrom>>

\* the listRuns promise of call i resolves with response
Runs_listRunsResolves(i, response) ==
    /\ page = "runs"
    /\ i \in Pending(fetches)
    /\ fetches' = Resolved(fetches, i, response)
    /\ runsList' = runsList_loadRuns_resolved(runsList, response)
    /\ cursorsFrom' = i
    /\ UNCHANGED <<page, budget, runDetailsModal, queueFetches, shellStores, effects, stockDetailsModal, bulkQueueRunDetailsModal, detailFetches, exchangeFetches, bulkQueueRunsList, timezoneOffset, stocksList, timers, timerSeq>>

\* the listRuns promise of call i rejects with error
Runs_listRunsRejects(i, error) ==
    /\ page = "runs"
    /\ i \in Pending(fetches)
    /\ fetches' = Rejected(fetches, i, error)
    /\ runsList' = runsList_loadRuns_rejected(runsList, error)
    /\ cursorsFrom' = 0
    /\ UNCHANGED <<page, budget, runDetailsModal, queueFetches, shellStores, effects, stockDetailsModal, bulkQueueRunDetailsModal, detailFetches, exchangeFetches, bulkQueueRunsList, timezoneOffset, stocksList, timers, timerSeq>>

RunsNext ==
    \/ \E f \in InitialFilterInputs : Runs_init(f)
    \/ Runs_loadRuns
    \/ Runs_applyFilters
    \/ Runs_clearFilters
    \/ Runs_nextPage
    \/ Runs_previousPage
    \/ \E i \in 1..Len(fetches), r \in PageResponses : Runs_listRunsResolves(i, r)
    \/ \E i \in 1..Len(fetches), e \in PageErrors : Runs_listRunsRejects(i, e)

\* ------------------------------------------------------------------------
\* bulkQueueRunsList (listStore.js)

BulkFilterKeys ==
    {"requested_by__icontains", "created_after", "created_before", "started_at_after",
     "started_at_before", "completed_at_after", "completed_at_before",
     "is_completed", "has_errors"}

BulkBooleanKeys == {"is_completed", "has_errors"}

BulkDateKeys ==
    {"created_after", "created_before", "started_at_after", "started_at_before",
     "completed_at_after", "completed_at_before"}

bulkQueueRunsList_state ==
    [_initialized |-> FALSE,
     bulkQueueRuns |-> <<>>,
     loading |-> FALSE,
     error |-> NULL,
     nextCursor |-> NULL,
     previousCursor |-> NULL,
     pageSize |-> 50,
     filters |-> [k \in BulkFilterKeys |-> <<>>]]

\* the keys loadBulkQueueRuns puts in activeFilters, in a browser at offset
bulkQueueRunsList_activeKeys(filters, offset) ==
    { key \in DOMAIN filters :
        IF key \in BulkBooleanKeys THEN filters[key] # <<>>
        ELSE IF key \in BulkDateKeys
             THEN filters[key] # <<>> /\ Trim(filters[key]) # <<>>
                  /\ dateToUTCISO(Trim(filters[key]), offset) # <<>>
        ELSE filters[key] # <<>> /\ Trim(filters[key]) # <<>> }

\* activeFilters of loadBulkQueueRuns
bulkQueueRunsList_activeFilters(filters, offset) ==
    [key \in bulkQueueRunsList_activeKeys(filters, offset) |->
        IF key \in BulkBooleanKeys
        THEN (IF IsStringValue(filters[key])
              THEN toLowerCase(filters[key]) = <<"t", "r", "u", "e">>
              ELSE filters[key] = JSTrue)
        ELSE IF key \in BulkDateKeys
             THEN dateToUTCISO(Trim(filters[key]), offset)
        ELSE Trim(filters[key])]

\* loadBulkQueueRuns up to its await
bulkQueueRunsList_loadBulkQueueRuns(s, fs, cursor, source, offset) ==
    LET s1 == [s EXCEPT !.loading = TRUE, !.error = NULL]
        activeFilters == bulkQueueRunsList_activeFilters(s1.filters, offset)
    IN  [store |-> s1,
         fetches |-> Append(fs, Fetch(s1.pageSize, cursor, activeFilters,
                                      <<s1.nextCursor, s1.previousCursor>>, source,
                                      runsAPI_listBulkQueueRuns(s1.pageSize, cursor,
                                                                activeFilters)))]

\* loadBulkQueueRuns after listBulkQueueRuns resolved with response
bulkQueueRunsList_loadBulkQueueRuns_resolved(s, response) ==
    [s EXCEPT !.bulkQueueRuns = IF response.results = <<>> THEN <<>> ELSE response.results[1],
              !.nextCursor = IF response.next # <<>> THEN extractCursor(response.next) ELSE NULL,
              !.previousCursor = IF response.previous # <<>> THEN extractCursor(response.previous) ELSE NULL,
              !.loading = FALSE]

\* loadBulkQueueRuns after listBulkQueueRuns rejected with error
bulkQueueRunsList_loadBulkQueueRuns_rejected(s, error) ==
    [s EXCEPT !.error = IF error.message # "" THEN error.message
                        ELSE "Failed to load bulk queue runs",
              !.bulkQueueRuns = <<>>,
              !.nextCursor = NULL,
              !.previousCursor = NULL,
              !.loading = FALSE]

bulkQueueRunsList_applyFilters(s, fs, offset) ==
    bulkQueueRunsList_loadBulkQueueRuns(
        [s EXCEPT !.nextCursor = NULL, !.previousCursor = NULL], fs, NULL, 0, offset)

bulkQueueRunsList_clearFilters(s, fs, offset) ==
    bulkQueueRunsList_applyFilters(
        [s EXCEPT !.filters = [k \in BulkFilterKeys |-> <<>>]], fs, offset)

\* ------------------------------------------------------------------------
\* Operations of the bulk queue runs page

Bulk_loadBulkQueueRuns ==
    /\ page = "bulkQueueRuns"
    /\ CanIssue
    /\ LET r == bulkQueueRunsList_loadBulkQueueRuns(bulkQueueRunsList, fetches, NULL, 0,
                                                    timezoneOffset)
       IN  bulkQueueRunsList' = r.store /\ fetches' = r.fetches
    /\ UNCHANGED <<page, budget, runDetailsModal, queueFetches, shellStores, effects, stockDetailsModal, bulkQueueRunDetailsModal, detailFetches, exchangeFetches, timezoneOffset, stocksList, timers, timerSeq,
                 runsList, cursorsFrom>>

Bulk_applyFilters ==
    /\ page = "bulkQueueRuns"
    /\ CanIssue
    /\ LET r == bulkQueueRunsList_applyFilters(bulkQueueRunsList, fetches, timezoneOffset)
       IN  bulkQueueRunsList' = r.store /\ fetches' = r.fetches
    /\ cursorsFrom' = 0
    /\ UNCHANGED <<page, budget, runDetailsModal, queueFetches, shellStores, effects, stockDetailsModal, bulkQueueRunDetailsModal, detailFetches, exchangeFetches, timezoneOffset, stocksList, timers, timerSeq,
                 runsList>>

Bulk_clearFilters ==
    /\ page = "bulkQueueRuns"
    /\ CanIssue
    /\ LET r == bulkQueueRunsList_clearFilters(bulkQueueRunsList, fetches, timezoneOffset)
       IN  bulkQueueRunsList' = r.store /\ fetches' = r.fetches
    /\ cursorsFrom' = 0
    /\ UNCHANGED <<page, budget, runDetailsModal, queueFetches, shellStores, effects, stockDetailsModal, bulkQueueRunDetailsModal, detailFetches, exchangeFetches, timezoneOffset, stocksList, timers, timerSeq,
                 runsList>>

Bulk_nextPage ==
    /\ page = "bulkQueueRuns"
    /\ IF Truthy(bulkQueueRunsList.nextCursor)
       THEN /\ CanIssue
            /\ LET r == bulkQueueRunsList_loadBulkQueueRuns(
                            bulkQueueRunsList, fetches, bulkQueueRunsList.nextCursor,
                            cursorsFrom, timezoneOffset)
               IN  bulkQueueRunsList' = r.store /\ fetches' = r.fetches
       ELSE UNCHANGED <<bulkQueueRunsList, fetches>>
    /\ UNCHANGED <<page, budget, runDetailsModal, queueFetches, shellStores, effects, stockDetailsModal, bulkQueueRunDetailsModal, detailFetches, exchangeFetches, timezoneOffset, stocksList, timers, timerSeq,
                 runsList, cursorsFrom>>

Bulk_previousPage ==
    /\ page = "bulkQueueRuns"
    /\ IF Truthy(bulkQueueRunsList.previousCursor)
       THEN /\ CanIssue
            /\ LET r == bulkQueueRunsList_loadBulkQueueRuns(
                            bulkQueueRunsList, fetches, bulkQueueRunsList.previousCursor,
                            cursorsFrom, timezoneOffset)
               IN  bulkQueueRunsList' = r.store /\ fetches' = r.fetches
       ELSE UNCHANGED <<bulkQueueRunsList, fetches>>
    /\ UNCHANGED <<page, budget, runDetailsModal, queueFetches, shellStores, effects, stockDetailsModal, bulkQueueRunDetailsModal, detailFetches, exchangeFetches, timezoneOffset, stocksList, timers, timerSeq,
                 runsList, cursorsFrom>>

\* the listBulkQueueRuns promise of call i resolves with response
Bulk_listBulkQueueRunsResolves(i, response) ==
    /\ page = "bulkQueueRuns"
    /\ i \in Pending(fetches)
    /\ fetches' = Resolved(fetches, i, response)
    /\ bulkQueueRunsList' = bulkQueueRunsList_loadBulkQueueRuns_resolved(bulkQueueRunsList,
                                                                         response)
    /\ cursorsFrom' = i
    /\ UNCHANGED <<page, budget, runDetailsModal, queueFetches, shellStores, effects, stockDetailsModal, bulkQueueRunDetailsModal, detailFetches, exchangeFetches, timezoneOffset, stocksList, timers, timerSeq,
                 runsList>>

\* the listBulkQueueRuns promise of call i rejects with error
Bulk_listBulkQueueRunsRejects(i, error) ==
    /\ page = "bulkQueueRuns"
    /\ i \in Pending(fetches)
    /\ fetches' = Rejected(fetches, i, error)
    /\ bulkQueueRunsList' = bulkQueueRunsList_loadBulkQueueRuns_rejected(bulkQueueRunsList,
                                                                         error)
    /\ cursorsFrom' = 0
    /\ UNCHANGED <<page, budget, runDetailsModal, queueFetches, shellStores, effects, stockDetailsModal, bulkQueueRunDetailsModal, detailFetches, exchangeFetches, timezoneOffset, stocksList, timers, timerSeq,
                 runsList>>

BulkNext ==
    \/ Bulk_loadBulkQueueRuns
    \/ Bulk_applyFilters
    \/ Bulk_clearFilters
    \/ Bulk_nextPage
    \/ Bulk_previousPage
    \/ \E i \in 1..Len(fetches), r \in PageResponses : Bulk_listBulkQueueRunsResolves(i, r)
    \/ \E i \in 1..Len(fetches), e \in PageErrors : Bulk_listBulkQueueRunsRejects(i, e)

Init ==
    /\ page \in {"stocks", "runs"}
    /\ stocksList = stocksList_state
    /\ timers = {}
    /\ timerSeq = 0
    /\ fetches = <<>>
    /\ cursorsFrom = 0
    /\ runsList = runsList_state
    /\ budget = MaxLoads
    /\ exchangeFetches = <<>>
    /\ ModalsClosed
    /\ bulkQueueRunsList = bulkQueueRunsList_state
    /\ timezoneOffset = 0

Next == StocksNext \/ RunsNext

Spec == Init /\ [][Next]_vars

\* ------------------------------------------------------------------------
\* A page whose list is only reloaded (first load, retry, refresh): more
\* loads overlap, the filters stay as constructed

InitReload ==
    /\ page \in {"stocks", "runs"}
    /\ stocksList = stocksList_state
    /\ timers = {}
    /\ timerSeq = 0
    /\ fetches = <<>>
    /\ cursorsFrom = 0
    /\ runsList = runsList_state
    /\ budget = MaxReloads
    /\ exchangeFetches = <<>>
    /\ ModalsClosed
    /\ bulkQueueRunsList = bulkQueueRunsList_state
    /\ timezoneOffset = 0

NextReload ==
    \/ Stocks_loadStocks
    \/ \E i \in 1..Len(fetches), r \in Responses : Stocks_listTickersResolves(i, r)
    \/ \E i \in 1..Len(fetches), e \in Errors : Stocks_listTickersRejects(i, e)
    \/ Runs_loadRuns
    \/ \E i \in 1..Len(fetches), r \in Responses : Runs_listRunsResolves(i, r)
    \/ \E i \in 1..Len(fetches), e \in Errors : Runs_listRunsRejects(i, e)

SpecReload == InitReload /\ [][NextReload]_vars

\* ------------------------------------------------------------------------
\* The runs pages with their filter fields filled in by the view: one field
\* holds a value of its kind, requested_by__icontains holds " a"

\* what a text input can hold
StringInputs == { <<>>, <<" ">>, <<"a">>, <<" ", "F", " ">> }

\* what the input of a boolean filter can hold
BooleanInputs ==
    { <<>>, <<" ">>, <<"t", "r", "u", "e">>, <<"T", "R", "U", "E">>, <<"f", "a", "l", "s", "e">>, <<"F", "a", "l", "s", "e">>,
      JSTrue, JSFalse }

\* what a date input can hold
DateInputs ==
    { <<>>, <<" ">>, <<"2", "0", "2", "5", "-", "0", "1", "-", "0", "1">>,
      <<" ", "2", "0", "2", "5", "-", "0", "3", "-", "0", "1">>,
      <<"2", "0", "2", "5", "-", "1", "-", "1">>,
      <<"0", "1", "/", "0", "1", "/", "2", "0", "2", "5">> }

RawInputs(key, booleanKeys, dateKeys) ==
    IF key \in booleanKeys THEN BooleanInputs
    ELSE IF key \in dateKeys THEN DateInputs
    ELSE StringInputs

\* the filters of a store with value in the field key
FilledIn(keys, key, value) ==
    [k \in keys |-> IF k = key THEN value
                    ELSE IF k = "requested_by__icontains" THEN <<" ", "a">>
                    ELSE <<>>]

InitFilters ==
    /\ page \in {"runs", "bulkQueueRuns"}
    /\ timezoneOffset \in TimezoneOffsets
    /\ stocksList = stocksList_state
    /\ timers = {}
    /\ timerSeq = 0
    /\ fetches = <<>>
    /\ cursorsFrom = 0
    /\ exchangeFetches = <<>>
    /\ ModalsClosed
    /\ budget = MaxLoads
    /\ IF page = "runs"
       THEN /\ bulkQueueRunsList = bulkQueueRunsList_state
            /\ \E key \in RunsFilterKeys :
                 \E value \in RawInputs(key, RunsBooleanKeys, RunsDateKeys) :
                   runsList = [runsList_state EXCEPT
                                 !.filters = FilledIn(RunsFilterKeys, key, value)]
       ELSE /\ runsList = runsList_state
            /\ \E key \in BulkFilterKeys :
                 \E value \in RawInputs(key, BulkBooleanKeys, BulkDateKeys) :
                   bulkQueueRunsList = [bulkQueueRunsList_state EXCEPT
                                          !.filters = FilledIn(BulkFilterKeys, key, value)]

NextFilters ==
    \/ Runs_loadRuns
    \/ Runs_applyFilters
    \/ Runs_clearFilters
    \/ Runs_nextPage
    \/ Runs_previousPage
    \/ \E i \in 1..Len(fetches), r \in PageResponses : Runs_listRunsResolves(i, r)
    \/ \E i \in 1..Len(fetches), e \in PageErrors : Runs_listRunsRejects(i, e)
    \/ BulkNext

SpecFilters == InitFilters /\ [][NextFilters]_vars

\* ------------------------------------------------------------------------
\* The three list pages when they are loaded and paged through; the
\* references of a page can carry an empty cursor

PagingResponses ==
    PageResponses
      \cup { [results |-> << <<"v">> >>,
              next |-> <<"https:", "//h/api/list", "?", "cursor", "=", "">>,
              previous |-> <<"https:", "//h/api/list", "?", "cursor", "=", "p2">>] }

InitPaging ==
    /\ page \in {"stocks", "runs", "bulkQueueRuns"}
    /\ stocksList = stocksList_state
    /\ timers = {}
    /\ timerSeq = 0
    /\ fetches = <<>>
    /\ cursorsFrom = 0
    /\ runsList = runsList_state
    /\ budget = MaxLoads
    /\ exchangeFetches = <<>>
    /\ ModalsClosed
    /\ bulkQueueRunsList = bulkQueueRunsList_state
    /\ timezoneOffset = 0

NextPaging ==
    \/ Stocks_loadStocks
    \/ Stocks_nextPage
    \/ Stocks_previousPage
    \/ \E i \in 1..Len(fetches), r \in PagingResponses : Stocks_listTickersResolves(i, r)
    \/ \E i \in 1..Len(fetches), e \in PageErrors : Stocks_listTickersRejects(i, e)
    \/ Runs_loadRuns
    \/ Runs_nextPage
    \/ Runs_previousPage
    \/ \E i \in 1..Len(fetches), r \in PagingResponses : Runs_listRunsResolves(i, r)
    \/ \E i \in 1..Len(fetches), e \in PageErrors : Runs_listRunsRejects(i, e)
    \/ Bulk_loadBulkQueueRuns
    \/ Bulk_nextPage
    \/ Bulk_previousPage
    \/ \E i \in 1..Len(fetches), r \in PagingResponses : Bulk_listBulkQueueRunsResolves(i, r)
    \/ \E i \in 1..Len(fetches), e \in PageErrors : Bulk_listBulkQueueRunsRejects(i, e)

SpecPaging == InitPaging /\ [][NextPaging]_vars

\* ------------------------------------------------------------------------
\* The pages under a fair event loop: a timer whose delay has passed runs
\* its callback and the API client's promise of every request settles.
\* The page invokes an operation only while a fetch remains for every
\* pending timer, so that the bound on fetches never holds a callback back.

FetchReserved ==
    Len(fetches) + Len(exchangeFetches) + Cardinality(timers) < budget

\* the answers drawn: a page with both references, and every rejection
FairResponses == { r \in Responses : r.next # <<>> /\ r.previous # <<>> }

\* the browser runs a timer callback
TimerFires == \E t \in timers : Stocks_debounceTimerFires(t)

\* a promise of the list API settles
Settles ==
    \/ \E i \in 1..Len(fetches), r \in FairResponses : Stocks_listTickersResolves(i, r)
    \/ \E i \in 1..Len(fetches), e \in Errors : Stocks_listTickersRejects(i, e)
    \/ \E i \in 1..Len(fetches), r \in FairResponses : Runs_listRunsResolves(i, r)
    \/ \E i \in 1..Len(fetches), e \in Errors : Runs_listRunsRejects(i, e)

NextFair ==
    \/ FetchReserved /\ Stocks_loadStocks
    \/ FetchReserved /\ \E k \in StocksDebounceKeys : \E v \in FilterInputs[k] :
                           Stocks_handleDebouncedFilter(k, v)
    \/ FetchReserved /\ Runs_loadRuns
    \/ TimerFires
    \/ Settles

SpecFair ==
    Init /\ [][NextFair]_vars /\ WF_vars(TimerFires) /\ WF_vars(Settles)

\* ------------------------------------------------------------------------
\* stockDetailsModal (detailsModalStore.js) and bulkQueueRunDetailsModal
\* (listStore.js).  A call in detailFetches records the entity it asks for.

DetailFetch(entity) == [entity |-> entity, state |-> "pending"]

PendingDetails == { i \in 1..Len(detailFetches) : detailFetches[i].state = "pending" }

CanFetchDetails == Len(detailFetches) < budget

\* the rows a details button can pass to openModal; a row can lack its
\* ticker or id
StockRows == { <<[ticker |-> "AAPL"]>>, <<[ticker |-> "MSFT"]>>, <<[ticker |-> ""]>> }

BulkQueueRunRows == { <<[id |-> "run-1"]>>, <<[id |-> "run-2"]>>, <<[id |-> ""]>> }

\* what getTickerStatus resolves with for a ticker: its latest run, or null
\* after a 404
TickerStatusOf(ticker) == { <<>>, <<[ticker |-> ticker, state |-> "QUEUED_FOR_FETCH"]>> }

\* what getBulkQueueRunStats resolves with for a run id
BulkQueueRunStatsOf(id) == { <<[id |-> id, total_stocks |-> 3]>> }

\* openModal up to its call of fetchStockStatus
stockDetailsModal_openModal(s, stockData) ==
    [s EXCEPT !.stockData = stockData, !.isOpen = TRUE, !.error = NULL, !.runStatus = <<>>]

\* fetchStockStatus up to its await
stockDetailsModal_fetchStockStatus(s) ==
    [s EXCEPT !.loadingStatus = TRUE, !.error = NULL]

\* fetchStockStatus(ticker) after getTickerStatus resolved with data
stockDetailsModal_fetchStockStatus_resolved(s, ticker, data) ==
    [s EXCEPT !.runStatus = data, !.loadingStatus = FALSE]

\* fetchStockStatus after getTickerStatus rejected with error
stockDetailsModal_fetchStockStatus_rejected(s, error) ==
    [s EXCEPT !.error = IF error.message # "" THEN error.message
                        ELSE "Failed to fetch stock status",
              !.loadingStatus = FALSE]

\* the callback closeModal hands to setTimeout
stockDetailsModal_closeCallback(s) ==
    IF ~s.isOpen
    THEN [s EXCEPT !.stockData = <<>>, !.runStatus = <<>>, !.error = NULL]
    ELSE s

bulkQueueRunDetailsModal_openModal(s, runData) ==
    [s EXCEPT !.bulkQueueRunData = runData, !.isOpen = TRUE, !.error = NULL,
              !.statsData = <<>>]

bulkQueueRunDetailsModal_fetchStats(s) ==
    [s EXCEPT !.loadingStats = TRUE, !.error = NULL]

bulkQueueRunDetailsModal_fetchStats_resolved(s, bulkQueueRunId, data) ==
    [s EXCEPT !.statsData = data, !.loadingStats = FALSE]

bulkQueueRunDetailsModal_fetchStats_rejected(s, error) ==
    [s EXCEPT !.error = IF error.message # "" THEN error.message
                        ELSE "Failed to fetch bulk queue run stats",
              !.loadingStats = FALSE]

bulkQueueRunDetailsModal_closeCallback(s) ==
    IF ~s.isOpen
    THEN [s EXCEPT !.bulkQueueRunData = <<>>, !.statsData = <<>>, !.error = NULL]
    ELSE s

\* the answers of POST /ticker/queue: a status and the parsed body, whose
\* fields error.message, message and detail can each be missing
QueueBodies ==
    { [error_message |-> "Ticker is invalid", message |-> NULL, detail |-> NULL],
      [error_message |-> NULL, message |-> "Broker unavailable", detail |-> NULL],
      [error_message |-> NULL, message |-> NULL, detail |-> NULL] }

QueueResponses ==
    { [status |-> st, data |-> [error_message |-> NULL, message |-> NULL, detail |-> NULL]] :
         st \in {200, 201} }
    \cup [status : {400, 409, 500, 503}, data : QueueBodies]

\* a || b || c || fallback over values that can be missing
FirstTruthy(values, fallback) ==
    IF \E k \in 1..Len(values) : values[k] \notin {NULL, ""}
    THEN values[CHOOSE k \in 1..Len(values) :
                   /\ values[k] \notin {NULL, ""}
                   /\ \A j \in 1..(k - 1) : values[j] \in {NULL, ""}]
    ELSE fallback

\* the errorMessage queueStock derives from a non-success response
stockDetailsModal_queueStock_errorMessage(response) ==
    LET data == response.data IN
    IF response.status = 400
    THEN FirstTruthy(<<data.error_message>>,
                     "Invalid request. Please check the ticker symbol.")
    ELSE IF response.status = 409
    THEN FirstTruthy(<<data.error_message>>,
                     "A run for this stock was just created. Refreshing status...")
    ELSE IF response.status = 500
    THEN FirstTruthy(<<data.message, data.error_message>>,
                     "Failed to queue task. Please try again later.")
    ELSE FirstTruthy(<<data.error_message, data.message, data.detail>>,
                     "Request failed with status 503")

\* queueStock called without a ticker
stockDetailsModal_queueStock_noTicker(s) ==
    [s EXCEPT !.error = "Ticker symbol is required"]

\* queueStock up to its await of stocksAPI.queueStock
stockDetailsModal_queueStock(s) ==
    [s EXCEPT !.loadingQueue = TRUE, !.error = NULL]

\* queueStock after a response that is neither a success nor a 409: the
\* message is stored and the finally block runs
stockDetailsModal_queueStock_failed(s, response) ==
    [s EXCEPT !.error = stockDetailsModal_queueStock_errorMessage(response),
              !.loadingQueue = FALSE]

\* queueStock after a 409, up to the await inside the fetchStockStatus it calls
stockDetailsModal_queueStock_conflict(s, response) ==
    stockDetailsModal_fetchStockStatus(
        [s EXCEPT !.error = stockDetailsModal_queueStock_errorMessage(response)])

\* queueStock after stocksAPI.queueStock rejected with error
stockDetailsModal_queueStock_rejected(s, error) ==
    [s EXCEPT !.error = IF error.message # "" THEN error.message
                        ELSE "Failed to queue stock. Please try again.",
              !.loadingQueue = FALSE]

\* the finally block of queueStock
stockDetailsModal_queueStock_finally(s) ==
    [s EXCEPT !.loadingQueue = FALSE]

\* a queueStock call: its ticker, where it stands and, for a call that
\* refreshes the status (200, 201, 409), the status and message of its
\* response and the index in detailFetches of the refresh it awaits
QueueCall(ticker) ==
    [ticker |-> ticker, state |-> "pending", status |-> 0, message |-> NULL, refresh |-> 0]

\* the queueStock calls that await the status refresh i
AwaitsRefresh(i) ==
    { q \in 1..Len(queueFetches) :
         queueFetches[q].state = "refreshing" /\ queueFetches[q].refresh = i }

\* the bookkeeping once refresh i has settled: the calls awaiting it are done
RefreshSettled(i) ==
    [q \in 1..Len(queueFetches) |->
        IF q \in AwaitsRefresh(i) THEN [queueFetches[q] EXCEPT !.state = "done"]
        ELSE queueFetches[q]]

\* what a queueStock awaiting refresh i does once fetchStockStatus returned
stockDetailsModal_queueStock_refreshed(s, i) ==
    IF AwaitsRefresh(i) # {} THEN stockDetailsModal_queueStock_finally(s) ELSE s

\* the rows a details button of the runs page can pass to openModal
RunRows == { <<[id |-> "r1"]>>, <<[id |-> "r2"]>> }

runDetailsModal_openModal(s, runData) ==
    [s EXCEPT !.runData = runData, !.isOpen = TRUE]

\* the callback clearing the data without looking at isOpen
runDetailsModal_closeCallback_unconditional(s) ==
    [s EXCEPT !.runData = <<>>]

\* the callback closeModal hands to setTimeout
runDetailsModal_closeCallback(s) ==
    IF ~s.isOpen
    THEN [s EXCEPT !.runData = <<>>]
    ELSE s

\* ------------------------------------------------------------------------
\* Operations of the details modals

\* a details button calls openModal(stockData); stockData can be null
StockDetails_openModal(stockData) ==
    /\ page = "stockDetails"
    /\ IF stockData = <<>>
       THEN UNCHANGED <<stockDetailsModal, detailFetches>>
       ELSE IF stockData[1].ticker # ""
       THEN /\ CanFetchDetails
            /\ stockDetailsModal' = stockDetailsModal_fetchStockStatus(
                                       stockDetailsModal_openModal(stockDetailsModal, stockData))
            /\ detailFetches' = Append(detailFetches, DetailFetch(stockData[1].ticker))
       ELSE /\ stockDetailsModal' = stockDetailsModal_openModal(stockDetailsModal, stockData)
            /\ UNCHANGED detailFetches
    /\ UNCHANGED <<page, budget, runDetailsModal, queueFetches, shellStores, effects, bulkQueueRunDetailsModal, stocksList, timers, timerSeq,
                   fetches, cursorsFrom, runsList, exchangeFetches, bulkQueueRunsList,
                   timezoneOffset>>

\* closeModal(): hide the modal, clear its data 300 ms later
StockDetails_closeModal ==
    /\ page = "stockDetails"
    /\ timerSeq < MaxTimers
    /\ timerSeq' = timerSeq + 1
    /\ timers' = timers \cup {[id |-> timerSeq + 1, key |-> "closeModal", value |-> <<>>]}
    /\ stockDetailsModal' = [stockDetailsModal EXCEPT !.isOpen = FALSE]
    /\ UNCHANGED <<page, budget, runDetailsModal, queueFetches, shellStores, effects, bulkQueueRunDetailsModal, detailFetches, stocksList,
                   fetches, cursorsFrom, runsList, exchangeFetches, bulkQueueRunsList,
                   timezoneOffset>>

\* the 300 ms of the pending timer t have passed
StockDetails_closeTimerFires(t) ==
    /\ page = "stockDetails"
    /\ t \in timers
    /\ timers' = timers \ {t}
    /\ stockDetailsModal' = stockDetailsModal_closeCallback(stockDetailsModal)
    /\ UNCHANGED <<page, budget, runDetailsModal, queueFetches, shellStores, effects, bulkQueueRunDetailsModal, detailFetches, stocksList,
                   timerSeq, fetches, cursorsFrom, runsList, exchangeFetches,
                   bulkQueueRunsList, timezoneOffset>>

\* the getTickerStatus promise of call i resolves with data
StockDetails_getTickerStatusResolves(i, data) ==
    /\ page = "stockDetails"
    /\ i \in PendingDetails
    /\ data \in TickerStatusOf(detailFetches[i].entity)
    /\ detailFetches' = [detailFetches EXCEPT ![i].state = "ok"]
    /\ stockDetailsModal' = stockDetailsModal_queueStock_refreshed(
                               stockDetailsModal_fetchStockStatus_resolved(
                                   stockDetailsModal, detailFetches[i].entity, data), i)
    /\ queueFetches' = RefreshSettled(i)
    /\ UNCHANGED <<page, budget, runDetailsModal, shellStores, effects, bulkQueueRunDetailsModal, stocksList, timers, timerSeq,
                   fetches, cursorsFrom, runsList, exchangeFetches, bulkQueueRunsList,
                   timezoneOffset>>

\* the getTickerStatus promise of call i rejects with error
StockDetails_getTickerStatusRejects(i, error) ==
    /\ page = "stockDetails"
    /\ i \in PendingDetails
    /\ detailFetches' = [detailFetches EXCEPT ![i].state = "failed"]
    /\ stockDetailsModal' = stockDetailsModal_queueStock_refreshed(
                               stockDetailsModal_fetchStockStatus_rejected(stockDetailsModal, error), i)
    /\ queueFetches' = RefreshSettled(i)
    /\ UNCHANGED <<page, budget, runDetailsModal, shellStores, effects, bulkQueueRunDetailsModal, stocksList, timers, timerSeq,
                   fetches, cursorsFrom, runsList, exchangeFetches, bulkQueueRunsList,
                   timezoneOffset>>

\* the Queue button of the modal calls queueStock(ticker)
StockDetails_queueStock(ticker) ==
    /\ page = "stockDetails"
    /\ IF ticker = ""
       THEN /\ stockDetailsModal' = stockDetailsModal_queueStock_noTicker(stockDetailsModal)
            /\ UNCHANGED queueFetches
       ELSE /\ Len(queueFetches) + Len(detailFetches) < budget
            /\ stockDetailsModal' = stockDetailsModal_queueStock(stockDetailsModal)
            /\ queueFetches' = Append(queueFetches, QueueCall(ticker))
    /\ UNCHANGED detailFetches
    /\ UNCHANGED <<page, budget, runDetailsModal, shellStores, effects,
                   bulkQueueRunDetailsModal, stocksList, timers, timerSeq, fetches,
                   cursorsFrom, runsList, exchangeFetches, bulkQueueRunsList,
                   timezoneOffset>>

\* the stocksAPI.queueStock promise of call q resolves with response
StockDetails_queueStockResolves(q, response) ==
    /\ page = "stockDetails"
    /\ q \in 1..Len(queueFetches)
    /\ queueFetches[q].state = "pending"
    /\ IF response.status \in {200, 201}
       THEN /\ stockDetailsModal' = stockDetailsModal_fetchStockStatus(stockDetailsModal)
            /\ detailFetches' = Append(detailFetches, DetailFetch(queueFetches[q].ticker))
            /\ queueFetches' = [queueFetches EXCEPT ![q].state = "refreshing",
                                                    ![q].status = response.status,
                                                    ![q].refresh = Len(detailFetches) + 1]
       ELSE IF response.status = 409
       THEN /\ stockDetailsModal' = stockDetailsModal_queueStock_conflict(stockDetailsModal, response)
            /\ detailFetches' = Append(detailFetches, DetailFetch(queueFetches[q].ticker))
            /\ queueFetches' = [queueFetches EXCEPT
                                   ![q].state = "refreshing",
                                   ![q].status = response.status,
                                   ![q].message = stockDetailsModal_queueStock_errorMessage(response),
                                   ![q].refresh = Len(detailFetches) + 1]
       ELSE /\ stockDetailsModal' = stockDetailsModal_queueStock_failed(stockDetailsModal, response)
            /\ UNCHANGED detailFetches
            /\ queueFetches' = [queueFetches EXCEPT ![q].state = "done"]
    /\ UNCHANGED <<page, budget, runDetailsModal, shellStores, effects,
                   bulkQueueRunDetailsModal, stocksList, timers, timerSeq, fetches,
                   cursorsFrom, runsList, exchangeFetches, bulkQueueRunsList,
                   timezoneOffset>>

\* the stocksAPI.queueStock promise of call q rejects with error
StockDetails_queueStockRejects(q, error) ==
    /\ page = "stockDetails"
    /\ q \in 1..Len(queueFetches)
    /\ queueFetches[q].state = "pending"
    /\ stockDetailsModal' = stockDetailsModal_queueStock_rejected(stockDetailsModal, error)
    /\ queueFetches' = [queueFetches EXCEPT ![q].state = "done"]
    /\ UNCHANGED detailFetches
    /\ UNCHANGED <<page, budget, runDetailsModal, shellStores, effects,
                   bulkQueueRunDetailsModal, stocksList, timers, timerSeq, fetches,
                   cursorsFrom, runsList, exchangeFetches, bulkQueueRunsList,
                   timezoneOffset>>

BulkDetails_openModal(runData) ==
    /\ page = "bulkQueueRunDetails"
    /\ IF runData = <<>>
       THEN UNCHANGED <<bulkQueueRunDetailsModal, detailFetches>>
       ELSE IF runData[1].id # ""
       THEN /\ CanFetchDetails
            /\ bulkQueueRunDetailsModal' =
                  bulkQueueRunDetailsModal_fetchStats(
                      bulkQueueRunDetailsModal_openModal(bulkQueueRunDetailsModal, runData))
            /\ detailFetches' = Append(detailFetches, DetailFetch(runData[1].id))
       ELSE /\ bulkQueueRunDetailsModal' =
                  bulkQueueRunDetailsModal_openModal(bulkQueueRunDetailsModal, runData)
            /\ UNCHANGED detailFetches
    /\ UNCHANGED <<page, budget, runDetailsModal, queueFetches, shellStores, effects, stockDetailsModal, stocksList, timers, timerSeq,
                   fetches, cursorsFrom, runsList, exchangeFetches, bulkQueueRunsList,
                   timezoneOffset>>

BulkDetails_closeModal ==
    /\ page = "bulkQueueRunDetails"
    /\ timerSeq < MaxTimers
    /\ timerSeq' = timerSeq + 1
    /\ timers' = timers \cup {[id |-> timerSeq + 1, key |-> "closeModal", value |-> <<>>]}
    /\ bulkQueueRunDetailsModal' = [bulkQueueRunDetailsModal EXCEPT !.isOpen = FALSE]
    /\ UNCHANGED <<page, budget, runDetailsModal, queueFetches, shellStores, effects, stockDetailsModal, detailFetches, stocksList,
                   fetches, cursorsFrom, runsList, exchangeFetches, bulkQueueRunsList,
                   timezoneOffset>>

BulkDetails_closeTimerFires(t) ==
    /\ page = "bulkQueueRunDetails"
    /\ t \in timers
    /\ timers' = timers \ {t}
    /\ bulkQueueRunDetailsModal' = bulkQueueRunDetailsModal_closeCallback(bulkQueueRunDetailsModal)
    /\ UNCHANGED <<page, budget, runDetailsModal, queueFetches, shellStores, effects, stockDetailsModal, detailFetches, stocksList,
                   timerSeq, fetches, cursorsFrom, runsList, exchangeFetches,
                   bulkQueueRunsList, timezoneOffset>>

BulkDetails_getBulkQueueRunStatsResolves(i, data) ==
    /\ page = "bulkQueueRunDetails"
    /\ i \in PendingDetails
    /\ data \in BulkQueueRunStatsOf(detailFetches[i].entity)
    /\ detailFetches' = [detailFetches EXCEPT ![i].state = "ok"]
    /\ bulkQueueRunDetailsModal' = bulkQueueRunDetailsModal_fetchStats_resolved(
                                      bulkQueueRunDetailsModal, detailFetches[i].entity, data)
    /\ UNCHANGED <<page, budget, runDetailsModal, queueFetches, shellStores, effects, stockDetailsModal, stocksList, timers, timerSeq,
                   fetches, cursorsFrom, runsList, exchangeFetches, bulkQueueRunsList,
                   timezoneOffset>>

BulkDetails_getBulkQueueRunStatsRejects(i, error) ==
    /\ page = "bulkQueueRunDetails"
    /\ i \in PendingDetails
    /\ detailFetches' = [detailFetches EXCEPT ![i].state = "failed"]
    /\ bulkQueueRunDetailsModal' =
          bulkQueueRunDetailsModal_fetchStats_rejected(bulkQueueRunDetailsModal, error)
    /\ UNCHANGED <<page, budget, runDetailsModal, queueFetches, shellStores, effects, stockDetailsModal, stocksList, timers, timerSeq,
                   fetches, cursorsFrom, runsList, exchangeFetches, bulkQueueRunsList,
                   timezoneOffset>>

\* a details button of the runs page calls openModal(runData)
RunDetails_openModal(runData) ==
    /\ page = "runDetails"
    /\ runDetailsModal' = IF runData = <<>> THEN runDetailsModal
                          ELSE runDetailsModal_openModal(runDetailsModal, runData)
    /\ UNCHANGED <<page, budget, queueFetches, shellStores, effects, stockDetailsModal,
                   bulkQueueRunDetailsModal, detailFetches, stocksList, timers, timerSeq,
                   fetches, cursorsFrom, runsList, exchangeFetches, bulkQueueRunsList,
                   timezoneOffset>>

\* closeModal(): hide the modal, clear its data 250 ms later
RunDetails_closeModal ==
    /\ page = "runDetails"
    /\ timerSeq < MaxTimers
    /\ timerSeq' = timerSeq + 1
    /\ timers' = timers \cup {[id |-> timerSeq + 1, key |-> "closeModal", value |-> <<>>]}
    /\ runDetailsModal' = [runDetailsModal EXCEPT !.isOpen = FALSE]
    /\ UNCHANGED <<page, budget, queueFetches, shellStores, effects, stockDetailsModal,
                   bulkQueueRunDetailsModal, detailFetches, stocksList,
                   fetches, cursorsFrom, runsList, exchangeFetches, bulkQueueRunsList,
                   timezoneOffset>>

\* the 250 ms of the pending timer t have passed
RunDetails_closeTimerFires(t) ==
    /\ page = "runDetails"
    /\ t \in timers
    /\ timers' = timers \ {t}
    /\ runDetailsModal' = runDetailsModal_closeCallback(runDetailsModal)
    /\ UNCHANGED <<page, budget, queueFetches, shellStores, effects, stockDetailsModal,
                   bulkQueueRunDetailsModal, detailFetches, stocksList, timerSeq,
                   fetches, cursorsFrom, runsList, exchangeFetches, bulkQueueRunsList,
                   timezoneOffset>>

InitModals ==
    /\ page \in {"stockDetails", "bulkQueueRunDetails", "runDetails"}
    /\ stocksList = stocksList_state
    /\ timers = {}
    /\ timerSeq = 0
    /\ fetches = <<>>
    /\ cursorsFrom = 0
    /\ runsList = runsList_state
    /\ budget = MaxLoads
    /\ exchangeFetches = <<>>
    /\ ModalsClosed
    /\ bulkQueueRunsList = bulkQueueRunsList_state
    /\ timezoneOffset = 0

NextModals ==
    \/ \E row \in StockRows \cup {<<>>} : StockDetails_openModal(row)
    \/ StockDetails_closeModal
    \/ \E t \in timers : StockDetails_closeTimerFires(t)
    \/ \E i \in 1..Len(detailFetches) :
          \E data \in TickerStatusOf(detailFetches[i].entity) :
             StockDetails_getTickerStatusResolves(i, data)
    \/ \E i \in 1..Len(detailFetches), e \in PageErrors : StockDetails_getTickerStatusRejects(i, e)
    \/ \E row \in BulkQueueRunRows \cup {<<>>} : BulkDetails_openModal(row)
    \/ BulkDetails_closeModal
    \/ \E t \in timers : BulkDetails_closeTimerFires(t)
    \/ \E i \in 1..Len(detailFetches) :
          \E data \in BulkQueueRunStatsOf(detailFetches[i].entity) :
             BulkDetails_getBulkQueueRunStatsResolves(i, data)
    \/ \E i \in 1..Len(detailFetches), e \in PageErrors :
          BulkDetails_getBulkQueueRunStatsRejects(i, e)
    \/ \E row \in RunRows \cup {<<>>} : RunDetails_openModal(row)
    \/ RunDetails_closeModal
    \/ \E t \in timers : RunDetails_closeTimerFires(t)

SpecModals == InitModals /\ [][NextModals]_vars

\* ------------------------------------------------------------------------
\* The stock details modal with its Queue button: the modal is opened, stocks
\* are queued, and the queue and status requests settle in any order.

InitQueue ==
    /\ InitModals
    /\ page = "stockDetails"

\* a request may start while the requests made so far leave room for it
QueueReserved == Len(queueFetches) + Len(detailFetches) < budget

NextQueue ==
    \/ QueueReserved /\ StockDetails_openModal(<<[ticker |-> "AAPL"]>>)
    \/ \E ticker \in {"AAPL", ""} : StockDetails_queueStock(ticker)
    \/ \E q \in 1..Len(queueFetches), r \in QueueResponses : StockDetails_queueStockResolves(q, r)
    \/ \E q \in 1..Len(queueFetches), e \in PageErrors : StockDetails_queueStockRejects(q, e)
    \/ \E i \in 1..Len(detailFetches) :
          \E data \in TickerStatusOf(detailFetches[i].entity) :
             StockDetails_getTickerStatusResolves(i, data)
    \/ \E i \in 1..Len(detailFetches), e \in PageErrors : StockDetails_getTickerStatusRejects(i, e)

SpecQueue == InitQueue /\ [][NextQueue]_vars

\* ------------------------------------------------------------------------
\* Initialisation: base (baseStore.js), themeToggle (themeToggleStore.js),
\* authAPI (auth.js) and the init of the page's stores.  The operators work
\* on w, the stores together with the document's effects and the timers.

\* what localStorage.getItem('theme') can return
SavedThemes == {NULL, "light", "dark"}

Shell(stores, eff, tm, seq) == [stores |-> stores, effects |-> eff, timers |-> tm, timerSeq |-> seq]

\* themeToggle.init() reading saved from localStorage
themeToggle_init(w, saved) ==
    IF w.stores.themeToggle._initialized THEN w
    ELSE [w EXCEPT !.stores.themeToggle._initialized = TRUE,
                   !.stores.themeToggle.currentTheme = IF saved = NULL THEN "light" ELSE saved,
                   !.effects.applyTheme = @ + 1]

\* authAPI.init()
authAPI_init(w) ==
    IF w.stores.authAPI._initialized THEN w
    ELSE [w EXCEPT !.stores.authAPI._initialized = TRUE]

\* base.hidePageLoading(); hasOverlay: the page has its overlay and main content
base_hidePageLoading(w, hasOverlay) ==
    IF w.stores.base._loadingHidden THEN w
    ELSE IF hasOverlay
    THEN [w EXCEPT !.stores.base._loadingHidden = TRUE,
                   !.effects.fadeOverlay = @ + 1,
                   !.timers = @ \cup {[id |-> w.timerSeq + 1, key |-> "hideOverlay", value |-> <<>>]},
                   !.timerSeq = @ + 1]
    ELSE [w EXCEPT !.stores.base._loadingHidden = TRUE]

\* base.init()
base_init(w, saved, hasOverlay) ==
    IF w.stores.base._initialized THEN w
    ELSE base_hidePageLoading(
             authAPI_init(
                 themeToggle_init([w EXCEPT !.stores.base._initialized = TRUE], saved)),
             hasOverlay)

\* the page's x-init calls base.init()
Base_init(saved, hasOverlay) ==
    /\ page = "runs"
    /\ LET w == base_init(Shell(shellStores, effects, timers, timerSeq), saved, hasOverlay) IN
          /\ shellStores' = w.stores
          /\ effects' = w.effects
          /\ timers' = w.timers
          /\ timerSeq' = w.timerSeq
    /\ UNCHANGED <<page, budget, runDetailsModal, queueFetches, stockDetailsModal,
                   bulkQueueRunDetailsModal, detailFetches, stocksList, fetches,
                   cursorsFrom, runsList, exchangeFetches, bulkQueueRunsList,
                   timezoneOffset>>

\* a script calls base.hidePageLoading() itself
Base_hidePageLoading(hasOverlay) ==
    /\ page = "runs"
    /\ LET w == base_hidePageLoading(Shell(shellStores, effects, timers, timerSeq), hasOverlay) IN
          /\ shellStores' = w.stores
          /\ effects' = w.effects
          /\ timers' = w.timers
          /\ timerSeq' = w.timerSeq
    /\ UNCHANGED <<page, budget, runDetailsModal, queueFetches, stockDetailsModal,
                   bulkQueueRunDetailsModal, detailFetches, stocksList, fetches,
                   cursorsFrom, runsList, exchangeFetches, bulkQueueRunsList,
                   timezoneOffset>>

\* the 300 ms after the fade have passed: the overlay is taken off the page
Base_overlayTimerFires(t) ==
    /\ page = "runs"
    /\ t \in timers
    /\ t.key = "hideOverlay"
    /\ timers' = timers \ {t}
    /\ effects' = [effects EXCEPT !.hideOverlay = @ + 1]
    /\ UNCHANGED <<shellStores, timerSeq>>
    /\ UNCHANGED <<page, budget, runDetailsModal, queueFetches, stockDetailsModal,
                   bulkQueueRunDetailsModal, detailFetches, stocksList, fetches,
                   cursorsFrom, runsList, exchangeFetches, bulkQueueRunsList,
                   timezoneOffset>>

\* the theme switch calls themeToggle.init()
ThemeToggle_init(saved) ==
    /\ page = "runs"
    /\ LET w == themeToggle_init(Shell(shellStores, effects, timers, timerSeq), saved) IN
          /\ shellStores' = w.stores
          /\ effects' = w.effects
    /\ UNCHANGED <<timers, timerSeq>>
    /\ UNCHANGED <<page, budget, runDetailsModal, queueFetches, stockDetailsModal,
                   bulkQueueRunDetailsModal, detailFetches, stocksList, fetches,
                   cursorsFrom, runsList, exchangeFetches, bulkQueueRunsList,
                   timezoneOffset>>

\* a component calls authAPI.init()
AuthAPI_init ==
    /\ page = "runs"
    /\ shellStores' = authAPI_init(Shell(shellStores, effects, timers, timerSeq)).stores
    /\ UNCHANGED <<effects, timers, timerSeq>>
    /\ UNCHANGED <<page, budget, runDetailsModal, queueFetches, stockDetailsModal,
                   bulkQueueRunDetailsModal, detailFetches, stocksList, fetches,
                   cursorsFrom, runsList, exchangeFetches, bulkQueueRunsList,
                   timezoneOffset>>

\* runDetailsModal.init()
RunDetails_init ==
    /\ page = "runs"
    /\ runDetailsModal' = IF runDetailsModal._initialized THEN runDetailsModal
                          ELSE [runDetailsModal EXCEPT !._initialized = TRUE]
    /\ UNCHANGED <<page, budget, queueFetches, shellStores, effects, stockDetailsModal,
                   bulkQueueRunDetailsModal, detailFetches, stocksList, timers, timerSeq,
                   fetches, cursorsFrom, runsList, exchangeFetches, bulkQueueRunsList,
                   timezoneOffset>>

\* init() without filters hands setInitialFilters nothing to copy
NoInitialFilters == <<>>

InitInit ==
    /\ Init
    /\ page = "runs"

NextInit ==
    \/ \E saved \in SavedThemes, hasOverlay \in BOOLEAN : Base_init(saved, hasOverlay)
    \/ \E hasOverlay \in BOOLEAN : Base_hidePageLoading(hasOverlay)
    \/ \E t \in timers : Base_overlayTimerFires(t)
    \/ \E saved \in SavedThemes : ThemeToggle_init(saved)
    \/ AuthAPI_init
    \/ RunDetails_init
    \/ \E f \in InitialFilterInputs \cup {NoInitialFilters} : Runs_init(f)

SpecInit == InitInit /\ [][NextInit]_vars

\* ------------------------------------------------------------------------
\* The active-filter indicators of the stores: hasActiveFilters() and
\* getActiveFilterCount(), the same text in every store

\* the fields of filters in the order Object.values visits them
StocksFilterOrder ==
    <<"ticker__icontains", "sector__name__icontains", "exchange__name", "country">>

RunsFilterOrder ==
    <<"run_id", "ticker", "ticker__icontains", "state", "requested_by",
      "requested_by__icontains", "created_after", "created_before",
      "is_terminal", "is_in_progress", "bulk_queue_run">>

BulkFilterOrder ==
    <<"requested_by__icontains", "created_after", "created_before", "started_at_after",
      "started_at_before", "completed_at_after", "completed_at_before",
      "is_completed", "has_errors">>

\* value && value.trim() !== '': the boolean true has no trim method and
\* the call throws a TypeError; false and '' are falsy
IsActiveValue(v) ==
    IF v = JSTrue THEN "TypeError"
    ELSE IF v = JSFalse THEN "false"
    ELSE IF v # <<>> /\ Trim(v) # <<>> THEN "true"
    ELSE "false"

\* Object.values(filters).some(...): stops at the first active value
RECURSIVE SomeActive(_, _)
SomeActive(filters, order) ==
    IF order = <<>> THEN [threw |-> FALSE, value |-> FALSE]
    ELSE IF IsActiveValue(filters[Head(order)]) = "TypeError"
         THEN [threw |-> TRUE, value |-> FALSE]
    ELSE IF IsActiveValue(filters[Head(order)]) = "true"
         THEN [threw |-> FALSE, value |-> TRUE]
    ELSE SomeActive(filters, Tail(order))

hasActiveFilters(filters, order) == SomeActive(filters, order)

\* Object.values(filters).filter(...).length: visits every value
getActiveFilterCount(filters, order) ==
    IF \E i \in 1..Len(order) : IsActiveValue(filters[order[i]]) = "TypeError"
    THEN [threw |-> TRUE, value |-> 0]
    ELSE [threw |-> FALSE,
          value |-> Cardinality({ i \in 1..Len(order) :
                                    IsActiveValue(filters[order[i]]) = "true" })]

\* ------------------------------------------------------------------------
\* Properties

\* the store of the page, as the view reads it
View ==
    IF page = "stocks"
    THEN [items |-> stocksList.stocks, nextCursor |-> stocksList.nextCursor,
          previousCursor |-> stocksList.previousCursor,
          loading |-> stocksList.loading, error |-> stocksList.error]
    ELSE IF page = "runs"
    THEN [items |-> runsList.runs, nextCursor |-> runsList.nextCursor,
          previousCursor |-> runsList.previousCursor,
          loading |-> runsList.loading, error |-> runsList.error]
    ELSE [items |-> bulkQueueRunsList.bulkQueueRuns,
          nextCursor |-> bulkQueueRunsList.nextCursor,
          previousCursor |-> bulkQueueRunsList.previousCursor,
          loading |-> bulkQueueRunsList.loading, error |-> bulkQueueRunsList.error]

\* what a store shows once it has committed response
Committed(response) ==
    [items |-> IF response.results = <<>> THEN <<>> ELSE response.results[1],
     nextCursor |-> IF response.next = <<>> THEN NULL ELSE extractCursor(response.next),
     previousCursor |-> IF response.previous = <<>> THEN NULL ELSE extractCursor(response.previous)]

Shows(response) ==
    /\ View.items = Committed(response).items
    /\ View.nextCursor = Committed(response).nextCursor
    /\ View.previousCursor = Committed(response).previousCursor

Latest == Len(fetches)

AllResolved == \A i \in 1..Len(fetches) : fetches[i].state = "ok"

\* steps: call i resolves, call i rejects, a call is issued
ResolvesStep(i) == i \in Pending(fetches) /\ fetches'[i].state = "ok"

RejectsStep(i) == i \in Pending(fetches) /\ fetches'[i].state = "failed"

IssuesStep == Len(fetches') = Len(fetches) + 1

PageUnchanged ==
    /\ View'.items = View.items
    /\ View'.nextCursor = View.nextCursor
    /\ View'.previousCursor = View.previousCursor

\* C1: in the store that tracks a request controller, once overlapping loads
\* have all resolved successfully the items and both cursors are those of the
\* response to the load issued last, in whatever order the loads resolved.
C1_LatestResponseShown ==
    (page = "stocks" /\ Len(fetches) >= 2 /\ AllResolved)
        => Shows(fetches[Latest].response)

\* C1 witness: A resolved after B had, with a different response, and the
\* store shows B's
C1_Witness ==
    /\ page = "stocks"
    /\ Len(fetches) = 2
    /\ AllResolved
    /\ fetches[1].timing = "late"
    /\ Committed(fetches[1].response) # Committed(fetches[2].response)
    /\ Shows(fetches[2].response)

\* C2: a load that fails with a non-abort error after a newer load was
\* issued leaves error, items and both cursors as they were; and once the
\* newer load has succeeded error is null and the items are the newer load's.
C2_StaleFailureAbsorbed ==
    /\ [][\A i \in 1..Len(fetches) :
            (page = "stocks" /\ RejectsStep(i) /\ i < Latest
               /\ fetches'[i].error.name # "AbortError")
            => (View'.error = View.error /\ PageUnchanged)]_vars
    /\ [](\A i \in 1..Len(fetches) :
            (page = "stocks" /\ i < Latest /\ fetches[i].state = "failed"
               /\ fetches[i].timing # "latest" /\ fetches[Latest].state = "ok"
               /\ \A j \in 1..Len(fetches) : j # i => fetches[j].state = "ok")
            => (View.error = NULL /\ Shows(fetches[Latest].response)))

\* C3: in the store of listStore.js, once overlapping loads have all resolved
\* the items and both cursors are those of the response to the load issued
\* last, and a load that resolves while a newer one is pending changes
\* neither items nor cursors.
C3_LatestRunsShown ==
    /\ []((page = "runs" /\ Len(fetches) >= 2 /\ AllResolved)
            => Shows(fetches[Latest].response))
    /\ [][\A i \in 1..Len(fetches) :
            (page = "runs" /\ ResolvesStep(i) /\ i < Latest
               /\ fetches[Latest].state = "pending")
            => PageUnchanged]_vars

\* C4: a load whose controller a newer load aborted changes nothing when it
\* resolves: items, cursors, error and loading stay as they were.
C4_SupersededResolveSilent ==
    [][\A i \in 1..Len(fetches) :
            (page = "stocks" /\ ResolvesStep(i) /\ fetches[i].aborted)
            => View' = View]_vars

\* C5: loading is true whenever the load issued last has not settled, and
\* loading falls only in the step in which that load settles.
C5_LoadingUntilLatestSettles ==
    /\ []((Len(fetches) >= 1 /\ fetches[Latest].state = "pending") => View.loading)
    /\ [][(View.loading /\ ~View'.loading)
            => (Latest >= 1 /\ fetches[Latest].state = "pending"
                  /\ fetches'[Latest].state # "pending")]_vars

\* C6: a fetch that sends a cursor carries the transport filters of the
\* fetch whose response produced that cursor.
C6_CursorSentWithItsFilters ==
    \A i \in 1..Len(fetches) :
        fetches[i].source # 0
            => fetches[i].filters = fetches[fetches[i].source].filters

\* the call issued by this step
Issued == fetches'[Len(fetches')]

TimersOf(tm, k) == { t \in tm : t.key = k }

\* C7: a handleDebouncedFilter call with a non-blank value issues no fetch
\* and leaves exactly one timer pending for its key, the one it installed;
\* when that timer fires exactly one first-page fetch is issued, carrying
\* for the key the trimmed value of the last call, and no timer of the burst
\* is left to fire again.
C7_BurstFetchesOnce ==
    [][/\ \A k \in StocksDebounceKeys : \A v \in FilterInputs[k] :
            (Trim(v) # <<>> /\ Stocks_handleDebouncedFilter(k, v))
            => /\ fetches' = fetches
               /\ TimersOf(timers', k) = {[id |-> stocksList'._debounceTimers[k], key |-> k, value |-> v]}
       /\ \A t \in timers :
            Stocks_debounceTimerFires(t)
            => /\ Len(fetches') = Len(fetches) + 1
               /\ Issued.cursor = NULL
               /\ t.key \in DOMAIN Issued.filters
               /\ Issued.filters[t.key] = Trim(t.value)
               /\ TimersOf(timers', t.key) = {}]_vars

\* C7 witness: two calls on ticker__icontains, "a" then "b ", the second
\* before the first timer fired; the only fetch carries "b"
C7_Witness ==
    /\ page = "stocks"
    /\ timerSeq = 2
    /\ timers = {}
    /\ Len(fetches) = 1
    /\ fetches[1].filters = ("ticker__icontains" :> <<"b">>)
    /\ stocksList.filters["sector__name__icontains"] = <<>>

C9_CursorsResetBeforeFetch ==
    [][(\/ Stocks_applyFilters
        \/ Stocks_clearFilters
        \/ \E t \in timers : Stocks_debounceTimerFires(t)
        \/ Runs_applyFilters
        \/ Runs_clearFilters)
       => /\ Len(fetches') = Len(fetches) + 1
          /\ Issued.cursor = NULL
          /\ Issued.cursorsAtCall = <<NULL, NULL>>]_vars

\* C9 witness: a page with a next cursor was committed, and the fetch
\* issued after it found both cursors null
C9_Witness ==
    /\ Len(fetches) = 2
    /\ fetches[1].state = "ok"
    /\ Committed(fetches[1].response).nextCursor = "n2"
    /\ fetches[2].state = "pending"
    /\ fetches[2].cursor = NULL
    /\ fetches[2].cursorsAtCall = <<NULL, NULL>>
    /\ View.nextCursor = NULL

\* C10: when the load issued last fails (not by abort), error is a non-empty
\* message, items is empty, both cursors are null and loading is false; and
\* when a load issued after such a failure succeeds as the latest, error is
\* null.
C10_FailureShownThenCleared ==
    [][/\ (Latest >= 1 /\ RejectsStep(Latest)
             /\ fetches'[Latest].error.name # "AbortError")
          => /\ View'.error # NULL
             /\ View'.error # ""
             /\ View'.items = <<>>
             /\ View'.nextCursor = NULL
             /\ View'.previousCursor = NULL
             /\ View'.loading = FALSE
       /\ (/\ Latest >= 1
           /\ ResolvesStep(Latest)
           /\ \E l \in 1..(Latest - 1) :
                /\ fetches[l].state = "failed"
                /\ fetches[l].timing = "latest"
                /\ fetches[l].error.name # "AbortError")
          => View'.error = NULL]_vars

\* a load that failed as the most recently issued one has set error
GenuineFailureShown ==
    /\ View.error # NULL
    /\ \E l \in 1..Len(fetches) :
          /\ fetches[l].state = "failed"
          /\ fetches[l].timing = "latest"
          /\ fetches[l].error.name # "AbortError"

\* a request of the store (list or exchanges) is issued by this step
RequestIssuedStep ==
    IssuesStep \/ Len(exchangeFetches') = Len(exchangeFetches) + 1

\* C11 as stated: once a genuine failure has set error, error becomes null
\* only in a step in which a fetch resolves successfully; issuing a load
\* does not clear it.
C11_ErrorRetainedUntilSuccess ==
    [][(GenuineFailureShown /\ View'.error = NULL)
          => \E i \in 1..Len(fetches) : ResolvesStep(i)]_vars

\* C11 amended: error becomes null only in a step that issues a request of
\* the store, and every such step leaves error null, before the request
\* has settled.
C11_ErrorRetainedUntilNextRequest ==
    [][/\ (View.error # NULL /\ View'.error = NULL) => RequestIssuedStep
       /\ RequestIssuedStep => View'.error = NULL]_vars

\* C11 witness: the first load failed as the latest, a second load has been
\* issued and is pending, and error is null again
C11_Witness ==
    /\ Len(fetches) = 2
    /\ fetches[1].state = "failed"
    /\ fetches[1].timing = "latest"
    /\ fetches[2].state = "pending"
    /\ View.error = NULL
    /\ View.loading

\* C12: in the store that tracks a request controller, a load that rejects
\* with an AbortError does not populate error and changes neither the items
\* nor the cursors; error is null after the latest load rejected so unless
\* another failure had set it before.
C12_AbortRejectionAbsorbed ==
    [][\A i \in 1..Len(fetches) :
          (page = "stocks" /\ RejectsStep(i) /\ fetches'[i].error.name = "AbortError")
          => /\ View'.error = View.error
             /\ PageUnchanged
             /\ (\A j \in 1..Len(fetches) : fetches[j].state # "failed")
                   => View'.error = NULL]_vars

\* C12 witness: a page is shown, the next load rejected with an AbortError
\* as the latest, and the page is still shown with no error
C12_Witness ==
    /\ page = "stocks"
    /\ Len(fetches) = 2
    /\ fetches[1].state = "ok"
    /\ fetches[2].state = "failed"
    /\ fetches[2].error.name = "AbortError"
    /\ fetches[2].timing = "latest"
    /\ View.items # <<>>
    /\ View.error = NULL

\* C13: when the load issued last resolves, the store shows exactly its
\* response (items the results or empty, each cursor the one extracted from
\* its reference or null), loading is false and error is null.
C13_LatestSuccessCommitted ==
    [][(Latest >= 1 /\ ResolvesStep(Latest))
          => /\ View'.items = Committed(fetches'[Latest].response).items
             /\ View'.nextCursor = Committed(fetches'[Latest].response).nextCursor
             /\ View'.previousCursor = Committed(fetches'[Latest].response).previousCursor
             /\ View'.loading = FALSE
             /\ View'.error = NULL]_vars

\* a reference that is present and that new URL() rejects
Malformed(ref) == ref # <<>> /\ ~URLParses(ref)

\* C14: when the load issued last resolves with a response whose next or
\* previous reference is malformed, the load does not fail: the malformed
\* reference gives a null cursor, the items are the response's, error is
\* still null if it was, and loading is false.
C14_MalformedReferenceTolerated ==
    [][(/\ Latest >= 1
        /\ ResolvesStep(Latest)
        /\ (Malformed(fetches'[Latest].response.next)
              \/ Malformed(fetches'[Latest].response.previous)))
       => /\ Malformed(fetches'[Latest].response.next) => View'.nextCursor = NULL
          /\ Malformed(fetches'[Latest].response.previous) => View'.previousCursor = NULL
          /\ View'.items = Committed(fetches'[Latest].response).items
          /\ View.error = NULL => View'.error = NULL
          /\ View'.loading = FALSE]_vars

\* C14 witness: the only load resolved with items and a relative next
\* reference; the items are shown, there is no next cursor and no error
C14_Witness ==
    /\ Len(fetches) = 1
    /\ fetches[1].state = "ok"
    /\ Malformed(fetches[1].response.next)
    /\ fetches[1].response.results # <<>>
    /\ View.items = fetches[1].response.results[1]
    /\ View.nextCursor = NULL
    /\ View.error = NULL
    /\ View.loading = FALSE

\* the request of a store's first load, made in its initial state
InitialRequest ==
    IF page = "stocks"
    THEN stocksList_loadStocks(stocksList_state, <<>>, NULL, 0).fetches[1]
    ELSE runsList_loadRuns(runsList_state, <<>>, NULL, 0).fetches[1]

SameRequest(f, g) ==
    /\ f.cursor = g.cursor
    /\ f.pageSize = g.pageSize
    /\ f.filters = g.filters

NoFilterSet ==
    IF page = "stocks"
    THEN \A k \in StocksFilterKeys : stocksList.filters[k] = <<>>
    ELSE \A k \in RunsFilterKeys : runsList.filters[k] = <<>>

\* C15: the fetch issued by clearFilters, and the fetch issued by an
\* applyFilters called while no filter is set (as it is right after
\* clearFilters), is the request of the store's initial unfiltered load:
\* no cursor, the store's pageSize, an empty transport filter map.
C15_ClearedRequestIsInitial ==
    [][/\ (Stocks_clearFilters \/ Runs_clearFilters)
            => (IssuesStep /\ SameRequest(Issued, InitialRequest) /\ NoFilterSet')
       /\ ((Stocks_applyFilters \/ Runs_applyFilters) /\ NoFilterSet)
            => (IssuesStep /\ SameRequest(Issued, InitialRequest))]_vars

\* C15 witness: a filter had been set (typed on the stocks page, given to
\* init on the runs page), no filter is set any more, and the two fetches
\* issued, the second with both cursors reset, are the initial request
C15_Witness ==
    /\ \/ page = "stocks" /\ timerSeq = 1
       \/ page = "runs" /\ runsList._initialized
    /\ NoFilterSet
    /\ Len(fetches) = 2
    /\ SameRequest(fetches[1], InitialRequest)
    /\ SameRequest(fetches[2], InitialRequest)
    /\ fetches[1].state = "pending"
    /\ fetches[2].cursorsAtCall = <<NULL, NULL>>

\* the filter fields of the page's store
RawFilters ==
    IF page = "stocks" THEN stocksList.filters
    ELSE IF page = "runs" THEN runsList.filters
    ELSE bulkQueueRunsList.filters

BooleanKeys ==
    IF page = "runs" THEN RunsBooleanKeys
    ELSE IF page = "bulkQueueRuns" THEN BulkBooleanKeys
    ELSE {}

DateKeys ==
    IF page = "runs" THEN RunsDateKeys
    ELSE IF page = "bulkQueueRuns" THEN BulkDateKeys
    ELSE {}

\* the empty string, or a string of whitespace only
Blank(v) == v = <<>> \/ (IsStringValue(v) /\ Trim(v) = <<>>)

QueryKeys(q) == { q[i][1] : i \in 1..Len(q) }

QueryValues(q, key) == { q[i][2] : i \in { j \in 1..Len(q) : q[j][1] = key } }

\* C16 as stated: when a load issues its fetch, every filter key, of any
\* kind, whose raw value is empty or whitespace only is absent from the
\* transport filter map and from the query parameters, and no query
\* parameter has the value "".
C16_BlankNeverSent ==
    [][IssuesStep
         => /\ \A k \in DOMAIN RawFilters' :
                 Blank(RawFilters'[k])
                    => (k \notin DOMAIN Issued.filters /\ k \notin QueryKeys(Issued.query))
            /\ \A i \in 1..Len(Issued.query) : Issued.query[i][2] # <<>>]_vars

\* C16 amended: when a load issues its fetch, a string or date key whose raw
\* value is empty or whitespace only, and a boolean key whose raw value is
\* the empty string, is absent from the transport filter map and from the
\* query parameters; a boolean key whose raw value is whitespace only is
\* sent as false; no query parameter has the value "".
C16_BlankStringsNeverSent ==
    [][IssuesStep
         => /\ \A k \in DOMAIN RawFilters' :
                 LET raw == RawFilters'[k]
                     absent == k \notin DOMAIN Issued.filters
                                  /\ k \notin QueryKeys(Issued.query)
                 IN  /\ (k \notin BooleanKeys /\ Blank(raw)) => absent
                     /\ (k \in BooleanKeys /\ raw = <<>>) => absent
                     /\ (k \in BooleanKeys /\ raw # <<>> /\ Blank(raw))
                           => /\ k \in DOMAIN Issued.filters
                              /\ Issued.filters[k] = FALSE
                              /\ QueryValues(Issued.query, k) = {BooleanToString(FALSE)}
            /\ \A i \in 1..Len(Issued.query) : Issued.query[i][2] # <<>>]_vars

\* C16 witness: the state field of the runs page held " "; the fetch
\* carries requested_by__icontains only, in its filters and in its query
C16_Witness ==
    /\ page = "runs"
    /\ runsList.filters["state"] = <<" ">>
    /\ Len(fetches) >= 1
    /\ DOMAIN fetches[1].filters = {"requested_by__icontains"}
    /\ QueryKeys(fetches[1].query) = {"page_size", "requested_by__icontains"}

\* C17: when a load issues its fetch, a boolean key is in the transport map
\* iff its raw value is not the empty string; "true" and "false" in any
\* letter case give true and false, a native boolean gives itself, and the
\* API client sends the key with "true" or "false", a false value included.
C17_BooleanNormalized ==
    [][IssuesStep
         => \A k \in BooleanKeys :
              LET raw == RawFilters'[k]
              IN  /\ (k \in DOMAIN Issued.filters) <=> (raw # <<>>)
                  /\ (IsStringValue(raw) /\ toLowerCase(raw) = <<"t", "r", "u", "e">>)
                        => Issued.filters[k] = TRUE
                  /\ (IsStringValue(raw) /\ toLowerCase(raw) = <<"f", "a", "l", "s", "e">>)
                        => Issued.filters[k] = FALSE
                  /\ raw = JSTrue => Issued.filters[k] = TRUE
                  /\ raw = JSFalse => Issued.filters[k] = FALSE
                  /\ (k \in DOMAIN Issued.filters)
                        => QueryValues(Issued.query, k)
                             = {IF Issued.filters[k] THEN <<"t", "r", "u", "e">> ELSE <<"f", "a", "l", "s", "e">>}]_vars

\* C17 witness: is_terminal held "False", the fetch carries the boolean
\* false and the query the parameter is_terminal=false
C17_Witness ==
    /\ page = "runs"
    /\ runsList.filters["is_terminal"] = <<"F", "a", "l", "s", "e">>
    /\ Len(fetches) >= 1
    /\ "is_terminal" \in DOMAIN fetches[1].filters
    /\ fetches[1].filters["is_terminal"] = FALSE
    /\ QueryValues(fetches[1].query, "is_terminal") = {<<"f", "a", "l", "s", "e">>}

\* the transport filter map the page's load builds from the filter fields
\* when the browser's local timezone is at the given offset
TransportFiltersAt(offset) ==
    IF page = "bulkQueueRuns"
    THEN bulkQueueRunsList_activeFilters(RawFilters', offset)
    ELSE runsList_activeFilters(RawFilters')

\* C18: when a load issues its fetch, every date bound in the transport
\* filter map is the string the same load, run on the same filter fields
\* in any other local timezone, puts there: the boundary of a YYYY-MM-DD
\* value does not depend on the timezone offset.
C18_DateBoundIndependentOfTimezone ==
    [][(IssuesStep /\ page \in {"runs", "bulkQueueRuns"})
         => \A k \in DateKeys \cap DOMAIN Issued.filters :
              \A offset \in TimezoneOffsets :
                 /\ k \in DOMAIN TransportFiltersAt(offset)
                 /\ TransportFiltersAt(offset)[k] = Issued.filters[k]]_vars

\* a date field holding text that is not of the form YYYY-MM-DD
MalformedDate(v) == IsStringValue(v) /\ Trim(v) # <<>> /\ ~MatchesDatePattern(Trim(v))

\* the error field of the page's store
PageError ==
    IF page = "stocks" THEN stocksList.error
    ELSE IF page = "runs" THEN runsList.error
    ELSE bulkQueueRunsList.error

\* a load of the first page of the runs or bulk queue runs page
LoadStep ==
    \/ Runs_loadRuns
    \/ Runs_applyFilters
    \/ Bulk_loadBulkQueueRuns
    \/ Bulk_applyFilters

\* C19: a load whose filter fields hold a malformed date still issues its
\* fetch; in every fetch issued, a date key whose value is not YYYY-MM-DD
\* is absent from the transport filter map and from the query parameters,
\* the other non-blank string filters are sent trimmed, and the store's
\* error is null after the step.
C19_MalformedDateDropped ==
    [][/\ LoadStep => IssuesStep
       /\ (IssuesStep /\ page \in {"runs", "bulkQueueRuns"})
            => \A k \in DateKeys :
                 MalformedDate(RawFilters'[k])
                    => /\ k \notin DOMAIN Issued.filters
                       /\ k \notin QueryKeys(Issued.query)
                       /\ \A o \in (DOMAIN RawFilters') \ (DateKeys \cup BooleanKeys) :
                            ~Blank(RawFilters'[o])
                               => /\ o \in DOMAIN Issued.filters
                                  /\ Issued.filters[o] = Trim(RawFilters'[o])
                                  /\ QueryValues(Issued.query, o) = {Trim(RawFilters'[o])}
                       /\ PageError' = NULL]_vars

\* C19 witness: created_after of the runs page holds "2025-1-1"; the fetch
\* is pending with requested_by__icontains as its only filter, and no
\* error is set
C19_Witness ==
    /\ page = "runs"
    /\ runsList.filters["created_after"] = <<"2", "0", "2", "5", "-", "1", "-", "1">>
    /\ Len(fetches) = 1
    /\ fetches[1].state = "pending"
    /\ fetches[1].filters = [requested_by__icontains |-> <<"a">>]
    /\ QueryKeys(fetches[1].query) = {"page_size", "requested_by__icontains"}
    /\ runsList.error = NULL

\* an operation the page invokes on its store
UserOperationStep ==
    \/ Stocks_loadStocks
    \/ Stocks_applyFilters
    \/ Stocks_clearFilters
    \/ Stocks_nextPage
    \/ Stocks_previousPage
    \/ \E k \in StocksDebounceKeys : \E v \in FilterInputs[k] : Stocks_handleDebouncedFilter(k, v)
    \/ Runs_loadRuns
    \/ Runs_applyFilters
    \/ Runs_clearFilters
    \/ Runs_nextPage
    \/ Runs_previousPage

\* a debounce timer scheduled earlier fires
ScheduledTimerStep == \E t \in timers : Stocks_debounceTimerFires(t)

\* a list fetch or the exchanges request fails in this step
FailsStep ==
    \/ \E i \in 1..Len(fetches) : RejectsStep(i)
    \/ \E i \in 1..Len(exchangeFetches) :
          exchangeFetches[i] = "pending" /\ exchangeFetches'[i] = "failed"

\* C20: a step in which a request fails issues no request and schedules no
\* timer, and every step that issues a list fetch is a user operation
\* (load, applyFilters, clearFilters, nextPage, previousPage,
\* handleDebouncedFilter) or the firing of a debounce timer scheduled by
\* one.
C20_NoAutomaticRetry ==
    [][/\ FailsStep => (~RequestIssuedStep /\ timers' = timers /\ timerSeq' = timerSeq)
       /\ IssuesStep => (UserOperationStep \/ ScheduledTimerStep)]_vars

\* C20 witness: the only fetch issued has failed with a genuine error, the
\* store shows the error and is idle, and no timer is pending
C20_Witness ==
    /\ page = "stocks"
    /\ Len(fetches) = 1
    /\ fetches[1].state = "failed"
    /\ stocksList.error # NULL
    /\ ~stocksList.loading
    /\ timers = {}

\* the pending timers of a key
PendingTimers(key) == { t \in timers : t.key = key }

\* C21: each debounced key has at most one pending timer, the key's handle
\* is that timer's id and is null when none is pending; a timer that fires
\* is the one its key's handle names, and the handle is null after it
\* fired; handleDebouncedFilter leaves no earlier timer of its key pending.
C21_OnePendingTimerPerKey ==
    /\ [](\A k \in StocksDebounceKeys :
            /\ Cardinality(PendingTimers(k)) <= 1
            /\ \A t \in PendingTimers(k) : stocksList._debounceTimers[k] = t.id
            /\ (stocksList._debounceTimers[k] # 0) => (PendingTimers(k) # {}))
    /\ [][\A t \in timers :
            Stocks_debounceTimerFires(t)
               => /\ stocksList._debounceTimers[t.key] = t.id
                  /\ stocksList'._debounceTimers[t.key] = 0
                  /\ t \notin timers']_vars
    /\ [][\A k \in StocksDebounceKeys : \A v \in FilterInputs[k] :
            Stocks_handleDebouncedFilter(k, v)
               => PendingTimers(k) \cap timers' = {}]_vars

\* C21 witness: the second timer installed is the only one pending; the
\* first one, of the same key, was cancelled by the second keystroke
C21_Witness ==
    /\ page = "stocks"
    /\ timerSeq = 2
    /\ timers = {[id |-> 2, key |-> "ticker__icontains", value |-> <<"a">>]}
    /\ stocksList._debounceTimers["ticker__icontains"] = 2
    /\ fetches = <<>>

\* clearFilters() is called on the page's store
ClearFiltersStep == Stocks_clearFilters \/ Runs_clearFilters

\* C22: clearFilters leaves no timer pending, every handle null and every
\* filter field empty, and its fetch carries no filter; a timer pending
\* later was installed by a later handleDebouncedFilter call with the value
\* typed then; and no fetch carries a filter whose field is empty when it
\* is issued.
C22_ClearFiltersCancelsTimers ==
    /\ [][ClearFiltersStep
            => /\ timers' = {}
               /\ \A k \in StocksDebounceKeys : stocksList'._debounceTimers[k] = 0
               /\ \A k \in DOMAIN RawFilters' : RawFilters'[k] = <<>>
               /\ IssuesStep
               /\ DOMAIN Issued.filters = {}
               /\ QueryKeys(Issued.query) = {"page_size"}]_vars
    /\ [][\A t \in timers' \ timers :
            /\ t.id > timerSeq
            /\ Stocks_handleDebouncedFilter(t.key, t.value)]_vars
    /\ [][IssuesStep
            => \A k \in DOMAIN Issued.filters : RawFilters'[k] # <<>>]_vars

\* C22 witness: two timers were installed and none is pending, every
\* filter field is empty and the one fetch issued carries no filter
C22_Witness ==
    /\ page = "stocks"
    /\ timerSeq = 2
    /\ timers = {}
    /\ \A k \in StocksFilterKeys : stocksList.filters[k] = <<>>
    /\ \A k \in StocksDebounceKeys : stocksList._debounceTimers[k] = 0
    /\ Len(fetches) = 1
    /\ DOMAIN fetches[1].filters = {}

\* C23: handleDebouncedFilter for one key leaves the pending timer and the
\* handle of every other key as they were; a timer that fires issues one
\* first-page fetch, leaves the timers and handles of the other keys as
\* they were, and its fetch carries every filter field that is non-blank
\* at that moment, trimmed, and no other.
C23_TimersArePerKey ==
    /\ [][\A k \in StocksDebounceKeys : \A v \in FilterInputs[k] :
            Stocks_handleDebouncedFilter(k, v)
               => \A o \in StocksDebounceKeys \ {k} :
                     /\ PendingTimers(o) \subseteq timers'
                     /\ stocksList'._debounceTimers[o] = stocksList._debounceTimers[o]]_vars
    /\ [][\A t \in timers :
            Stocks_debounceTimerFires(t)
               => /\ IssuesStep
                  /\ timers' = timers \ {t}
                  /\ \A o \in StocksDebounceKeys \ {t.key} :
                        stocksList'._debounceTimers[o] = stocksList._debounceTimers[o]
                  /\ Issued.cursor = NULL
                  /\ \A key \in StocksFilterKeys :
                        IF Blank(stocksList'.filters[key])
                        THEN key \notin DOMAIN Issued.filters
                        ELSE /\ key \in DOMAIN Issued.filters
                             /\ Issued.filters[key] = Trim(stocksList'.filters[key])]_vars

\* C23 witness: a timer was installed for each of the two keys and both
\* have fired; each of the two fetches carries both filters
C23_Witness ==
    /\ page = "stocks"
    /\ timerSeq = 2
    /\ timers = {}
    /\ stocksList.filters["ticker__icontains"] = <<"b", " ">>
    /\ stocksList.filters["sector__name__icontains"] = <<"a">>
    /\ Len(fetches) = 2
    /\ \A i \in 1..2 :
          fetches[i].filters = [ticker__icontains |-> <<"b">>, sector__name__icontains |-> <<"a">>]

NextPageStep == Stocks_nextPage \/ Runs_nextPage \/ Bulk_nextPage

PreviousPageStep == Stocks_previousPage \/ Runs_previousPage \/ Bulk_previousPage

\* the step issues one fetch, with this cursor in its arguments and in its
\* query parameters
IssuesWithCursor(cursor) ==
    /\ IssuesStep
    /\ Issued.cursor = cursor
    /\ QueryValues(Issued.query, "cursor") = {<<cursor>>}

\* the step issues no fetch and leaves items, cursors, loading, error and
\* the filter fields as they were
LeavesStoreAlone ==
    /\ fetches' = fetches
    /\ View' = View
    /\ RawFilters' = RawFilters

\* C24: a nextPage call issues a fetch only when nextCursor is not null,
\* and then with exactly that cursor; with a null (or empty) nextCursor it
\* issues none and leaves items, cursors, loading, error and filters as
\* they were.  The same for previousPage and previousCursor.
C24_PagingNeedsCursor ==
    [][/\ NextPageStep
            => IF View.nextCursor \in {NULL, ""}
               THEN LeavesStoreAlone
               ELSE IssuesWithCursor(View.nextCursor)
       /\ PreviousPageStep
            => IF View.previousCursor \in {NULL, ""}
               THEN LeavesStoreAlone
               ELSE IssuesWithCursor(View.previousCursor)]_vars

\* C24 witness: the first page came with a previous reference only (cursor
\* p1); the second fetch was issued with that cursor
C24_Witness ==
    /\ Len(fetches) = 2
    /\ fetches[1].state = "ok"
    /\ fetches[1].response.next = <<>>
    /\ fetches[2].cursor = "p1"
    /\ fetches[2].source = 1
    /\ QueryValues(fetches[2].query, "cursor") = {<<"p1">>}

\* loading is false and no debounce timer is pending
Quiet == ~View.loading /\ timers = {}

\* C25: with a fair event loop and the finitely many operations the bound
\* allows, the store's loading is eventually false for good with no timer
\* pending; and a store that is quiet stays quiet in every step that is
\* not an operation the page invokes.
C25_Quiescence ==
    /\ <>[]Quiet
    /\ [][(Quiet /\ ~Quiet') => UserOperationStep]_vars

\* C25 witness: a timer has fired, two fetches were issued and both have
\* settled, the older one after it was aborted; loading is false and no
\* timer is pending
C25_Witness ==
    /\ page = "stocks"
    /\ timerSeq >= 1
    /\ timers = {}
    /\ Len(fetches) = 2
    /\ Pending(fetches) = {}
    /\ fetches[1].aborted
    /\ ~stocksList.loading

\* C26: in every state, a store whose error is not null shows no items and
\* has neither cursor.
C26_ErrorExcludesResults ==
    View.error # NULL
       => /\ View.items = <<>>
          /\ View.nextCursor = NULL
          /\ View.previousCursor = NULL

\* the latest fetch was built from filter fields that trim to what the
\* fields hold now
LatestBuiltFromFields ==
    /\ Len(fetches) >= 1
    /\ DOMAIN fetches[Latest].filters = { k \in StocksFilterKeys : ~Blank(stocksList.filters[k]) }
    /\ \A k \in DOMAIN fetches[Latest].filters :
          fetches[Latest].filters[k] = Trim(stocksList.filters[k])

\* C27 as stated: when applyFilters has issued its fetch, no debounce timer
\* scheduled before the call is left to fire and issue a further fetch.
C27_ApplySupersedesTimers ==
    [][Stocks_applyFilters => timers' = {}]_vars

\* C27 amended: applyFilters issues its fetch and leaves every pending
\* timer and handle in place; a timer is removed only when it fires, by
\* clearFilters or by handleDebouncedFilter for its key; a timer that fires
\* after the latest fetch was built from the present filter fields issues
\* a first-page fetch with the same filters again.
C27_ApplyKeepsTimers ==
    /\ [][Stocks_applyFilters
            => /\ IssuesStep
               /\ timers' = timers
               /\ stocksList'._debounceTimers = stocksList._debounceTimers]_vars
    /\ [][\A t \in timers \ timers' :
            \/ Stocks_debounceTimerFires(t)
            \/ Stocks_clearFilters
            \/ \E v \in FilterInputs[t.key] : Stocks_handleDebouncedFilter(t.key, v)]_vars
    /\ [][\A t \in timers :
            (Stocks_debounceTimerFires(t) /\ LatestBuiltFromFields)
               => /\ IssuesStep
                  /\ Issued.cursor = NULL
                  /\ Issued.filters = fetches[Latest].filters]_vars

\* C27 witness: the change typed into ticker__icontains has been fetched
\* by an explicit load and its timer is still pending
C27_Witness ==
    /\ page = "stocks"
    /\ timers = {[id |-> 1, key |-> "ticker__icontains", value |-> <<"a">>]}
    /\ stocksList._debounceTimers["ticker__icontains"] = 1
    /\ stocksList.filters["ticker__icontains"] = <<"a">>
    /\ Len(fetches) = 1
    /\ fetches[1].state = "pending"
    /\ fetches[1].filters = [ticker__icontains |-> <<"a">>]

\* the order of the filter fields of the page's store
FilterOrder ==
    IF page = "stocks" THEN StocksFilterOrder
    ELSE IF page = "runs" THEN RunsFilterOrder
    ELSE BulkFilterOrder

\* C28: when a load issues its fetch, getActiveFilterCount() returns the
\* number of keys in the fetch's transport filter map and
\* hasActiveFilters() returns true iff that map is not empty.
C28_IndicatorsMatchTransport ==
    [][IssuesStep
         => LET count == getActiveFilterCount(RawFilters', FilterOrder)
                has == hasActiveFilters(RawFilters', FilterOrder)
            IN  /\ ~count.threw
                /\ count.value = Cardinality(DOMAIN Issued.filters)
                /\ ~has.threw
                /\ has.value <=> (DOMAIN Issued.filters # {})]_vars

\* C29: when a load issues its fetch, the filter parameters of the query
\* the API client builds are exactly the keys of the transport filter map
\* the store handed to it.
C29_ClientSendsEveryFilter ==
    [][IssuesStep
         => QueryKeys(Issued.query) \ {"page_size", "cursor"} = DOMAIN Issued.filters]_vars

\* the entity of the result in a modal's fetched field, and the entity the
\* modal was opened for
Fetched ==
    IF page = "stockDetails" THEN stockDetailsModal.runStatus
    ELSE bulkQueueRunDetailsModal.statsData

FetchedFor(result) == IF page = "stockDetails" THEN result.ticker ELSE result.id

OpenedFor ==
    IF page = "stockDetails" THEN stockDetailsModal.stockData[1].ticker
    ELSE bulkQueueRunDetailsModal.bulkQueueRunData[1].id

ModalIsOpen ==
    IF page = "stockDetails" THEN stockDetailsModal.isOpen
    ELSE bulkQueueRunDetailsModal.isOpen

\* C30: while a details modal is open for an entity, its fetched field
\* (runStatus, statsData) is null or the result fetched for that entity.
C30_ModalShowsItsEntity ==
    (page \in {"stockDetails", "bulkQueueRunDetails"} /\ ModalIsOpen /\ Fetched # <<>>)
       => FetchedFor(Fetched[1]) = OpenedFor

\* C31: an open details modal always has its data (runData, stockData,
\* bulkQueueRunData): the cleanup timer of an earlier closeModal never
\* clears the data of a modal that was reopened before it fired.
C31_OpenModalHasData ==
    /\ stockDetailsModal.isOpen => stockDetailsModal.stockData # <<>>
    /\ bulkQueueRunDetailsModal.isOpen => bulkQueueRunDetailsModal.bulkQueueRunData # <<>>
    /\ runDetailsModal.isOpen => runDetailsModal.runData # <<>>

\* a modal was closed and reopened, and the cleanup timer of the close has
\* not fired yet
C31_Witness ==
    /\ page = "runDetails"
    /\ runDetailsModal.isOpen
    /\ runDetailsModal.runData = <<[id |-> "r2"]>>
    /\ timers # {}

\* no call of metadataAPI.listExchanges has failed
NoExchangesFailure == \A i \in 1..Len(exchangeFetches) : exchangeFetches[i] # "failed"

\* C32: loadExchanges is lazy and cached: as long as no exchanges request
\* fails, at most one call of metadataAPI.listExchanges is ever issued, and
\* a loadExchanges call made once exchangesLoaded is true issues no request
\* and leaves exchanges as they are.
C32_LoadExchangesOnce ==
    /\ [](NoExchangesFailure => Len(exchangeFetches) <= 1)
    /\ [][(Stocks_loadExchanges /\ stocksList.exchangesLoaded)
             => /\ exchangeFetches' = exchangeFetches
                /\ stocksList'.exchanges = stocksList.exchanges]_vars

\* a step of loadExchanges: the call up to its await, or what it does after
\* listExchanges settled
LoadExchangesStep ==
    \/ Stocks_loadExchanges
    \/ \E i \in 1..Len(exchangeFetches), r \in ExchangeResponses :
          Stocks_listExchangesResolves(i, r)
    \/ \E i \in 1..Len(exchangeFetches), e \in PageErrors : Stocks_listExchangesRejects(i, e)

\* the page state of the list in the store s
PageState(s) ==
    <<s.stocks, s.nextCursor, s.previousCursor, s.loading, s.filters, s.error>>

\* C33: loadExchanges, succeeding or failing, leaves the list's page state
\* as it was: stocks, nextCursor, previousCursor, loading, filters and error.
C33_LoadExchangesKeepsPageState ==
    [][LoadExchangesStep => PageState(stocksList') = PageState(stocksList)]_vars

\* the queueStock call q, awaiting its status refresh, completes in this step
QueueCompletes(q) ==
    /\ queueFetches[q].state = "refreshing"
    /\ queueFetches'[q].state = "done"

\* C34: when queueStock completes after a non-success response (400, 409,
\* 500 or another status), error holds the message of that response and
\* loadingQueue is false; after a 200 or 201, error is null unless the
\* status refresh that followed failed.
C34_QueueStockReportsError ==
    [][/\ \A q \in 1..Len(queueFetches), r \in QueueResponses :
             (StockDetails_queueStockResolves(q, r) /\ r.status \notin {200, 201, 409})
                => /\ ~stockDetailsModal'.loadingQueue
                   /\ stockDetailsModal'.error = stockDetailsModal_queueStock_errorMessage(r)
       /\ \A q \in 1..Len(queueFetches) :
             QueueCompletes(q)
                => /\ ~stockDetailsModal'.loadingQueue
                   /\ IF queueFetches[q].status = 409
                      THEN stockDetailsModal'.error = queueFetches[q].message
                      ELSE \/ stockDetailsModal'.error = NULL
                           \/ detailFetches'[queueFetches[q].refresh].state = "failed"]_vars

\* an init call of some store, made after that store's first init
RepeatedInit ==
    \/ \E f \in InitialFilterInputs \cup {NoInitialFilters} :
          Runs_init(f) /\ runsList._initialized
    \/ RunDetails_init /\ runDetailsModal._initialized
    \/ AuthAPI_init /\ shellStores.authAPI._initialized
    \/ \E saved \in SavedThemes : ThemeToggle_init(saved) /\ shellStores.themeToggle._initialized
    \/ \E saved \in SavedThemes, hasOverlay \in BOOLEAN :
          Base_init(saved, hasOverlay) /\ shellStores.base._initialized

\* C35: init is idempotent for every store: an init call after the store's
\* first init changes no store state (the filters of runsList included),
\* and the theme is applied and the page loading overlay faded at most once.
C35_InitIdempotent ==
    /\ [][RepeatedInit => UNCHANGED vars]_vars
    /\ [](effects.applyTheme <= 1 /\ effects.fadeOverlay <= 1)

====
